---- MODULE Spec2Model ----
(***************************************************************************)
(* Model of the embedded-cluster bootstrap commands:                       *)
(*   - "install"                 cmd/embedded-cluster/install.go           *)
(*   - "install run-preflights"  installRunPreflightsCommand               *)
(*   - "join run-preflights"     joinRunPreflightsCommand                  *)
(* One command runs at a time on one host.  The host state (files on disk, *)
(* the k0s service) survives from one invocation to the next; everything   *)
(* else belongs to the running invocation.                                 *)
(***************************************************************************)
EXTENDS Integers, Sequences, FiniteSets, TLC

\* ------------------------------------------------------------------ bounds
MaxRuns == 2          \* command invocations in one behaviour
MaxKey == 2           \* keys of a k0s configuration document
MaxChecks == 1        \* collectors (and analyzers) of a host preflight spec
MaxVerdicts == 2      \* analyzer verdicts in a preflight output
MaxMissing == 2       \* images of the manifest that lack their name or a tag
MaxLen == 3           \* image URIs in an enumeration
MaxInvocations == 2   \* installs invoked at the same time

\* ------------------------------------------------------- program constants
WaitAttempts == 30    \* waitForK0s: for i := 0; i < 30; i++

\* ------------------------------------------------------------------ errors
\* A Go error is the chain of messages built by fmt.Errorf("...: %w", err),
\* outermost first.  nil is the empty chain.
Nil == <<>>
Wrap(msg, err) == <<msg>> \o err
ErrNothingElseToAdd == <<"">>
ErrPreflightsHaveFail == <<"host preflight failures detected">>
IsSuffix(s, t) ==
  /\ Len(s) <= Len(t)
  /\ SubSeq(t, Len(t) - Len(s) + 1, Len(t)) = s

\* ------------------------------------------------------------------ events
\* What an invocation did, in order: a phase of the install action starting
\* ("begin") or returning ("end", with its error), a call that acts outside
\* the process ("op", with its error), a telemetry report ("metric", with
\* the error reported; x tells whether the collector received it).
Ev(k, n, e, x) == [k |-> k, n |-> n, e |-> e, x |-> x]
Begin(p) == Ev("begin", p, Nil, "")
End(p, e) == Ev("end", p, e, "")
Op(n, e) == Ev("op", n, e, "")
Metric(n, e, sent) == Ev("metric", n, e, IF sent THEN "sent" ELSE "dropped")
\* metrics.ReportApplyStarted returns nothing: what becomes of it is not seen.
Started == Ev("metric", "ReportApplyStarted", Nil, "")

PhaseOrder ==
  << "license", "materialize", "preflights", "config",
     "install", "postinstall", "wait", "outro" >>

\* ----------------------------------------------------------- value spaces
Keys == 1..MaxKey
\* the value the renderer gives a key, and two values an override may give it
RenderedVal == "default"
Vals == {"v1", "v2"}
\* A local that holds nothing (yet) is the empty sequence, one that holds v
\* is <<v>>.
None == <<>>
Some(v) == <<v>>
Has(x) == Len(x) > 0
Get(x) == x[1]

\* A k0s configuration gives every key a value.  An override document sets
\* some keys and leaves the others alone; a document that does not parse or
\* does not patch is "malformed", a source that is not there is "absent".
Unset == "unset"
Configs == [Keys -> Vals \cup {RenderedVal}]
DefaultConfig == [k \in Keys |-> RenderedVal]
NoOverrides == [k \in Keys |-> Unset]
Fragment(kind, k0s) == [kind |-> kind, k0s |-> k0s]
Fragments ==
  { Fragment("ok", f) : f \in [Keys -> Vals \cup {Unset}] }
    \cup { Fragment("malformed", NoOverrides) }

\* The k0s configuration file: absent, created and still empty, or holding
\* the marshalled configuration.
NoFile == [exists |-> FALSE, written |-> FALSE]
EmptyFile == [exists |-> TRUE, written |-> FALSE]
WrittenFile == [exists |-> TRUE, written |-> TRUE]

\* The output of the preflights: how many analyzer verdicts are pass, warn
\* and fail.  The gate looks at nothing else, and not at their order.
Outputs ==
  { o \in [pass : 0..MaxVerdicts, warn : 0..MaxVerdicts, fail : 0..MaxVerdicts] :
      o.pass + o.warn + o.fail <= MaxVerdicts }
NoVerdicts == [pass |-> 0, warn |-> 0, fail |-> 0]

AppSlugs == {"app1", "app2"}
ChannelIDs == {"ch1", "ch2"}
Releases == [AppSlug : AppSlugs, ChannelID : ChannelIDs]
Licenses == [AppSlug : AppSlugs, ChannelID : ChannelIDs]

Versions == {"1.2.3", "1.2.4", "1.2.4-rc1"}

\* ------------------------------------------------------------ package config
\* A Go map is a function on the keys it holds; m[k] of a key it does not
\* hold, and of any key of a nil map, is the zero value of the element type.
EmptyMap == [k \in {} |-> ""]
MapGet(m, k, zero) == IF k \in DOMAIN m THEN m[k] ELSE zero

\* release.K0sMetadata.Images: image name -> {Repo, Tag: architecture -> tag}.
\* The names are those overrideK0sImages looks up.
ImageNames == {"coredns", "calico-node", "calico-cni", "calico-kube-controllers",
               "metrics-server", "kube-proxy", "pause"}
Archs == {"amd64", "arm64"}
ZeroImage == [Repo |-> "", Tag |-> EmptyMap]
\* What an entry of the manifest may lack: the entry itself, or tags.
Lacks == {"name", "tags", "arm64 tag", "amd64 tag"}
TagKeys(lack) ==
  CASE lack = "tags" -> {}
    [] lack = "arm64 tag" -> {"amd64"}
    [] lack = "amd64 tag" -> {"arm64"}
    [] OTHER -> Archs
Manifest(lack) ==
  [n \in { m \in ImageNames : MapGet(lack, m, "") # "name" } |->
     [Repo |-> "repo/" \o n,
      Tag |-> [a \in TagKeys(MapGet(lack, n, "")) |-> "v1-" \o a]]]
FullManifest == Manifest(EmptyMap)
Manifests ==
  { Manifest(lack) :
      lack \in UNION { [S -> Lacks] :
                         S \in { T \in SUBSET ImageNames : Cardinality(T) <= MaxMissing } } }

\* k0sv1beta1.ImageSpec and its URI(): Image ":" Version.  A URI is the
\* sequence of its parts, so that strings.Contains is the test for a run of
\* parts.
ZeroImageSpec == [Image |-> "", Version |-> ""]
URI(spec) == << spec.Image, ":", spec.Version >>
Contains(s, sub) ==
  \E k \in 0..(Len(s) - Len(sub)) : SubSeq(s, k + 1, k + Len(sub)) = sub

\* k0sv1beta1.ClusterImages: the images overrideK0sImages sets, and those
\* ListK0sImages skips.
OverriddenFields == {"CoreDNS", "Calico.Node", "Calico.CNI", "Calico.KubeControllers",
                     "MetricsServer", "KubeProxy", "Pause"}
SkippedFields == {"KubeRouter.CNI", "KubeRouter.CNIInstaller", "Konnectivity"}
ImageFields == OverriddenFields \cup SkippedFields
MetadataName(field) ==
  CASE field = "CoreDNS" -> "coredns"
    [] field = "Calico.Node" -> "calico-node"
    [] field = "Calico.CNI" -> "calico-cni"
    [] field = "Calico.KubeControllers" -> "calico-kube-controllers"
    [] field = "MetricsServer" -> "metrics-server"
    [] field = "KubeProxy" -> "kube-proxy"
    [] field = "Pause" -> "pause"
ZeroClusterImages == [f \in ImageFields |-> ZeroImageSpec]
\* k0s's own defaults
DefaultImage(field) == [Image |-> "quay.io/k0sproject/" \o field, Version |-> "v0"]
KubePauseContainerImage == << "registry.k8s.io/pause" >>
DefaultPause == [Image |-> "registry.k8s.io/pause", Version |-> "3.9"]
DefaultClusterImages ==
  [f \in ImageFields |-> IF f = "Pause" THEN DefaultPause ELSE DefaultImage(f)]
DefaultEnvoyProxy == [Image |-> "quay.io/k0sproject/envoy-distroless", Version |-> "v0"]
\* cfg.Spec, as far as package config reads and writes it
DefaultClusterSpec == [Images |-> Some(DefaultClusterImages), EnvoyProxy |-> DefaultEnvoyProxy]

VARIABLES
  \* host state
  k0sConfig,     \* the k0s configuration file (the install marker)
  ourbin,        \* the materialized k0s binary is in the embedded-cluster bin dir
  hstbin,        \* the k0s binary is at its host path
  k0sInstalled,  \* "k0s install" has created the controller service
  k0sStarted,    \* "k0s start" has started the service
  symlink,       \* /etc/systemd/system/<binary>.service exists
  socket,        \* the k0s status socket exists
  \* the running invocation
  runs,          \* invocations started so far
  ctxDone,       \* c.Context of the invocation has been cancelled
  cmd,           \* which command is running
  pc,            \* where it is
  flags,         \* its command line flags
  result,        \* the error its Action returned
  events,        \* what it did
  env,           \* process environment variables it has set
  hpf,           \* runHostPreflights: the host preflight spec read
  output,        \* runHostPreflights: the output of preflights.Run
  cfg,           \* ensureK0sConfig: rendered config, then the patched one
  embcfg,        \* applyUnsupportedOverrides: the embedded fragment
  eucfg,         \* applyUnsupportedOverrides: the end user fragment
  i,             \* waitForK0s: loop counter
  jcmd,          \* join run-preflights: the join command fetched
  channelRelease,\* checkLicenseMatches: rel, what the binary embeds
  licenseSpec,   \* checkLicenseMatches: license, when it parsed the file
  \* package config
  Metadata,      \* config.Metadata.Images, set by init()
  GOARCH,        \* runtime.GOARCH
  call,          \* the function of the package called, and whether it returned
  clusterSpec,   \* cfg.Spec of the *ClusterConfig passed to it
  uris,          \* what airgap.GetImageURIs(cfg.Spec, true) returns
  images,        \* what ListK0sImages returned
  \* installs invoked at the same time
  concurrent     \* where each of them is, and the error it returned

host == << k0sConfig, ourbin, hstbin, k0sInstalled, k0sStarted, symlink, socket >>
locals == << hpf, output, cfg, embcfg, eucfg, i, jcmd, channelRelease, licenseSpec >>
pkgconfig == << Metadata, GOARCH, call, clusterSpec, uris, images >>
vars == << k0sConfig, ourbin, hstbin, k0sInstalled, k0sStarted, symlink, socket,
           runs, ctxDone, cmd, pc, flags, result, events, env,
           hpf, output, cfg, embcfg, eucfg, i, jcmd, channelRelease, licenseSpec,
           Metadata, GOARCH, call, clusterSpec, uris, images, concurrent >>

\* Installs invoked at the same time on the host: each is somewhere in its
\* Action, or has returned an error or nil.
Invocations == 1..MaxInvocations
Invocation(where, err) == [pc |-> where, result |-> err]
NotInvoked == Invocation("idle", Nil)

\* The flags and arguments of an invocation, and the version of the binary
\* invoked (versions.Version).
NoFlags == [noPrompt |-> FALSE, overrides |-> "", license |-> "",
            nargs |-> 0, version |-> ""]
NoLocals ==
  /\ hpf' = None /\ output' = None /\ cfg' = None
  /\ embcfg' = None /\ eucfg' = None /\ i' = 0 /\ jcmd' = None
  /\ channelRelease' = None /\ licenseSpec' = None

\* No command has been invoked on a fresh host.
NoProcess ==
  /\ k0sConfig = NoFile /\ ourbin = FALSE /\ hstbin = FALSE
  /\ k0sInstalled = FALSE /\ k0sStarted = FALSE /\ symlink = FALSE
  /\ socket = FALSE
  /\ runs = 0 /\ ctxDone = FALSE /\ cmd = "none" /\ pc = "idle" /\ flags = NoFlags
  /\ result = Nil /\ events = <<>> /\ env = {}
  /\ hpf = None /\ output = None /\ cfg = None
  /\ embcfg = None /\ eucfg = None /\ i = 0 /\ jcmd = None
  /\ channelRelease = None /\ licenseSpec = None
  /\ concurrent = [p \in Invocations |-> NotInvoked]

\* The binary as shipped: a manifest that has every image for every
\* architecture.  The commands do not call package config directly.
Shipped ==
  /\ Metadata = FullManifest /\ GOARCH = "amd64"
  /\ call = "none" /\ clusterSpec = DefaultClusterSpec
  /\ uris = <<>> /\ images = <<>>

Init == NoProcess /\ Shipped

\* A new process: nothing done yet, nothing returned, a fresh environment.
NewProcess(c, f, first) ==
  /\ pc \in {"idle", "done"}
  /\ runs < MaxRuns
  /\ runs' = runs + 1 /\ ctxDone' = FALSE
  /\ cmd' = c /\ flags' = f /\ pc' = first
  /\ result' = Nil /\ events' = <<>> /\ env' = {}
  /\ NoLocals
  /\ UNCHANGED << host, pkgconfig, concurrent >>

\* ===================================================================== install
\* os.Stat of a path: nil when the file is there, a not-exist error when it
\* is not, and in either case possibly another error (the path cannot be
\* examined).
StatOutcomes(file) ==
  IF file.exists THEN {"nil", "other"} ELSE {"notexist", "other"}
StatErr(st) == IF st = "nil" THEN Nil ELSE <<"stat: " \o st>>

\* isAlreadyInstalled with the first case answering false
isAlreadyInstalled_NotFound(st) ==
  CASE st = "nil" -> [installed |-> FALSE, err |-> Nil]
    [] st = "notexist" -> [installed |-> FALSE, err |-> Nil]
    [] OTHER -> [installed |-> FALSE,
                 err |-> Wrap("unable to check if already installed", StatErr(st))]

isAlreadyInstalled(st) ==
  CASE st = "nil" -> [installed |-> TRUE, err |-> Nil]
    [] st = "notexist" -> [installed |-> FALSE, err |-> Nil]
    [] OTHER -> [installed |-> FALSE,
                 err |-> Wrap("unable to check if already installed", StatErr(st))]

\* What the embedded release and the license file may hold.
ReleaseInputs ==
  { [kind |-> k, AppSlug |-> "", ChannelID |-> ""] : k \in {"nil", "error"} }
    \cup { [kind |-> "ok", AppSlug |-> r.AppSlug, ChannelID |-> r.ChannelID] :
             r \in Releases }
LicenseInputs ==
  { [kind |-> "error", AppSlug |-> "", ChannelID |-> ""] }
    \cup { [kind |-> "ok", AppSlug |-> l.AppSlug, ChannelID |-> l.ChannelID] :
             l \in Licenses }

\* checkLicenseMatches without the comparison of the channels
checkLicenseMatches_ChannelIgnored(rel, licenseFlag, license) ==
  CASE rel.kind = "error" ->
         Wrap("failed to get release from binary", <<"malformed release">>)
    [] rel.kind = "nil" /\ licenseFlag = "" -> Nil
    [] rel.kind = "nil" /\ licenseFlag # "" ->
         <<"a license was provided but no release was found in binary">>
    [] rel.kind = "ok" /\ licenseFlag = "" ->
         <<"no license was provided and one is required">>
    [] OTHER ->
         IF license.kind = "error"
         THEN Wrap("unable to parse the license file", <<"corrupt license">>)
         ELSE IF rel.AppSlug # license.AppSlug
         THEN <<"license app does not match binary app">>
         ELSE Nil

checkLicenseMatches(rel, licenseFlag, license) ==
  CASE rel.kind = "error" ->
         Wrap("failed to get release from binary", <<"malformed release">>)
    [] rel.kind = "nil" /\ licenseFlag = "" -> Nil
    [] rel.kind = "nil" /\ licenseFlag # "" ->
         <<"a license was provided but no release was found in binary">>
    [] rel.kind = "ok" /\ licenseFlag = "" ->
         <<"no license was provided and one is required">>
    [] OTHER ->
         IF license.kind = "error"
         THEN Wrap("unable to parse the license file", <<"corrupt license">>)
         ELSE IF rel.AppSlug # license.AppSlug
         THEN <<"license app does not match binary app">>
         ELSE IF rel.ChannelID # license.ChannelID
         THEN <<"license channel does not match binary channel">>
         ELSE Nil

\* The process start of "install", with its flags.
InstallStart ==
  \E np \in BOOLEAN, ov \in {"", "overrides.yaml"}, lic \in {"", "license.yaml"} :
    /\ NewProcess("install",
                  [NoFlags EXCEPT !.noPrompt = np, !.overrides = ov, !.license = lic],
                  "before")

\* The Before hook of each of the three commands.
Before ==
  /\ pc = "before"
  /\ \E root \in BOOLEAN :
       IF root
       THEN /\ pc' = (CASE cmd = "install" -> "guard"
                        [] cmd = "installRunPreflights" -> "setup"
                        [] OTHER -> "fetch")
            /\ result' = result
       ELSE /\ pc' = "done"
            /\ result' = (IF cmd = "install"
                          THEN <<"install command must be run as root">>
                          ELSE <<"run-preflights command must be run as root">>)
  /\ UNCHANGED << host, runs, ctxDone, pkgconfig, concurrent, cmd, flags, events, env, locals >>

\* Action, up to ReportApplyStarted.
InstallGuard ==
  /\ cmd = "install" /\ pc = "guard"
  /\ \E st \in StatOutcomes(k0sConfig) :
       LET r == isAlreadyInstalled(st)
           stat == Op("os.Stat k0s.yaml", StatErr(st))
       IN  IF r.err # Nil
           THEN /\ events' = Append(events, stat)
                /\ result' = r.err /\ pc' = "done"
           ELSE IF r.installed
           THEN /\ events' = Append(events, stat)
                /\ result' = ErrNothingElseToAdd /\ pc' = "done"
           ELSE /\ events' = events \o << stat, Started >>
                /\ result' = result /\ pc' = "license"
  /\ UNCHANGED << host, runs, ctxDone, pkgconfig, concurrent, cmd, flags, env, locals >>

\* InstallStep without the return in the error branch
InstallStep_NoReturn(pre, p, next, err, reported, returned) ==
  IF err = Nil
  THEN /\ events' = events \o pre \o << End(p, Nil) >>
       /\ pc' = next
       /\ result' = result
  ELSE /\ \E sent \in BOOLEAN :
            events' = events \o pre
                        \o << End(p, err), Metric("ReportApplyFinished", reported, sent) >>
       /\ pc' = next
       /\ result' = result

\* InstallStep returning in the error branch the error it reported
InstallStep_ReturnReported(pre, p, next, err, reported, returned) ==
  IF err = Nil
  THEN /\ events' = events \o pre \o << End(p, Nil) >>
       /\ pc' = next
       /\ result' = result
  ELSE /\ \E sent \in BOOLEAN :
            events' = events \o pre
                        \o << End(p, err), Metric("ReportApplyFinished", reported, sent) >>
       /\ pc' = "done"
       /\ result' = reported

\* InstallStep without the report in the error branch
InstallStep_NoReport(pre, p, next, err, reported, returned) ==
  IF err = Nil
  THEN /\ events' = events \o pre \o << End(p, Nil) >>
       /\ pc' = next
       /\ result' = result
  ELSE /\ events' = events \o pre \o << End(p, err) >>
       /\ pc' = "done"
       /\ result' = returned

\* How the Action goes on after a phase returned err: on nil to the next
\* phase; otherwise it reports `reported` to the metrics collaborator, which
\* may or may not receive it, and returns `returned`.  `pre` is what the
\* phase did.
InstallStep(pre, p, next, err, reported, returned) ==
  IF err = Nil
  THEN /\ events' = events \o pre \o << End(p, Nil) >>
       /\ pc' = next
       /\ result' = result
  ELSE /\ \E sent \in BOOLEAN :
            events' = events \o pre
                        \o << End(p, err), Metric("ReportApplyFinished", reported, sent) >>
       /\ pc' = "done"
       /\ result' = returned

\* checkLicenseMatches parses the license file only when there is a release
\* and a license flag.
InstallLicense ==
  /\ cmd = "install" /\ pc = "license"
  /\ \E rel \in ReleaseInputs, license \in LicenseInputs :
       LET err == checkLicenseMatches(rel, flags.license, license)
       IN  /\ InstallStep(<< Begin("license") >>, "license", "materialize", err,
                          Wrap("unable to check license", err), err)
           /\ channelRelease' = Some(rel)
           /\ licenseSpec' = (IF rel.kind = "ok" /\ flags.license # ""
                              THEN Some(license) ELSE None)
  /\ UNCHANGED << host, runs, ctxDone, pkgconfig, concurrent, cmd, flags, env,
                  hpf, output, cfg, embcfg, eucfg, i, jcmd >>

InstallMaterialize ==
  /\ cmd = "install" /\ pc = "materialize"
  /\ \E ok \in BOOLEAN :
       LET cause == IF ok THEN Nil ELSE <<"materialize failed">>
           err == Wrap("unable to materialize binaries", cause)
       IN  /\ InstallStep(<< Begin("materialize"), Op("goods.Materialize", cause) >>,
                          "materialize", "preflights", cause, err, err)
           /\ ourbin' = (ok \/ ourbin)
  /\ channelRelease' = None /\ licenseSpec' = None
  /\ UNCHANGED << k0sConfig, hstbin, k0sInstalled, k0sStarted, symlink, socket,
                  runs, ctxDone, pkgconfig, concurrent, cmd, flags, env,
                  hpf, output, cfg, embcfg, eucfg, i, jcmd >>

\* ------------------------------------------------------------ runHostPreflights
HasFail(out) == out.fail > 0
HasWarn(out) == out.warn > 0
HostPreflightSpecs == [collectors : 0..MaxChecks, analyzers : 0..MaxChecks]
\* Verdicts come from analyzers: without one the output has none.
OutputsOf(h) == IF h.analyzers = 0 THEN { NoVerdicts } ELSE Outputs

\* NoChecks with the second test negated
NoChecks_Analyzers(h) == h.collectors = 0 /\ h.analyzers # 0

\* len(hpf.Collectors) == 0 && len(hpf.Analyzers) == 0
NoChecks(h) == h.collectors = 0 /\ h.analyzers = 0

PrintTable == Op("output.PrintTable", Nil)
Confirm(answer) == Ev("op", "prompts.Confirm", Nil, IF answer THEN "yes" ELSE "no")

\* runHostPreflightsGate where --no-prompt also waves a failing output through
runHostPreflightsGate_NoPromptFirst(out, noPrompt, answer) ==
  IF HasFail(out) /\ ~noPrompt
  THEN [err |-> <<"preflights haven't passed on the host">>, did |-> << PrintTable >>]
  ELSE IF ~HasWarn(out) \/ noPrompt
  THEN [err |-> Nil, did |-> << PrintTable >>]
  ELSE [err |-> IF answer THEN Nil ELSE <<"user aborted">>,
        did |-> << PrintTable, Confirm(answer) >>]

\* runHostPreflightsGate that prompts whatever --no-prompt says
runHostPreflightsGate_AlwaysPrompt(out, noPrompt, answer) ==
  IF HasFail(out)
  THEN [err |-> <<"preflights haven't passed on the host">>, did |-> << PrintTable >>]
  ELSE IF ~HasWarn(out)
  THEN [err |-> Nil, did |-> << PrintTable >>]
  ELSE [err |-> IF answer THEN Nil ELSE <<"user aborted">>,
        did |-> << PrintTable, Confirm(answer) >>]

\* runHostPreflights once preflights.Run has returned `out`: the error it
\* returns and what it does on the way.
runHostPreflightsGate(out, noPrompt, answer) ==
  IF HasFail(out)
  THEN [err |-> <<"preflights haven't passed on the host">>, did |-> << PrintTable >>]
  ELSE IF ~HasWarn(out) \/ noPrompt
  THEN [err |-> Nil, did |-> << PrintTable >>]
  ELSE [err |-> IF answer THEN Nil ELSE <<"user aborted">>,
        did |-> << PrintTable, Confirm(answer) >>]

PreflightsErr(err) == Wrap("unable to finish preflight checks", err)

\* addons.NewApplier().HostPreflights()
InstallPreflightsRead ==
  /\ cmd = "install" /\ pc = "preflights"
  /\ \E ok \in BOOLEAN, h \in HostPreflightSpecs :
       LET cause == IF ok THEN Nil ELSE <<"cannot read host preflights">>
           err == Wrap("unable to read host preflights", cause)
           pre == << Begin("preflights"), Op("applier.HostPreflights", cause) >>
       IN  IF ok
           THEN /\ events' = events \o pre
                /\ hpf' = Some(h) /\ pc' = "pfrun" /\ result' = result
           ELSE /\ InstallStep(pre, "preflights", "config", err,
                               PreflightsErr(err), PreflightsErr(err))
                /\ hpf' = hpf
  /\ UNCHANGED << host, runs, ctxDone, pkgconfig, concurrent, cmd, flags, env, output, cfg, embcfg, eucfg, i,
                  jcmd, channelRelease, licenseSpec >>

\* The empty check and preflights.Run
InstallPreflightsRun ==
  /\ cmd = "install" /\ pc = "pfrun"
  /\ LET h == Get(hpf)
     IN  IF NoChecks(h)
         THEN /\ InstallStep(<<>>, "preflights", "config", Nil, Nil, Nil)
              /\ output' = output
         ELSE \E ok \in BOOLEAN, out \in OutputsOf(h) :
                LET cause == IF ok THEN Nil ELSE <<"preflights did not run">>
                    err == Wrap("host preflights failed", cause)
                    pre == << Op("preflights.Run", cause) >>
                IN  IF ok
                    THEN /\ events' = events \o pre
                         /\ output' = Some(out) /\ pc' = "pfgate" /\ result' = result
                    ELSE /\ InstallStep(pre, "preflights", "config", err,
                                        PreflightsErr(err), PreflightsErr(err))
                         /\ output' = output
  /\ UNCHANGED << host, runs, ctxDone, pkgconfig, concurrent, cmd, flags, env, hpf, cfg, embcfg, eucfg, i,
                  jcmd, channelRelease, licenseSpec >>

InstallPreflightsGate ==
  /\ cmd = "install" /\ pc = "pfgate"
  /\ \E answer \in BOOLEAN :
       LET g == runHostPreflightsGate(Get(output), flags.noPrompt, answer)
       IN  InstallStep(g.did, "preflights", "config", g.err,
                       PreflightsErr(g.err), PreflightsErr(g.err))
  /\ UNCHANGED << host, runs, ctxDone, pkgconfig, concurrent, cmd, flags, env, locals >>

\* -------------------------------------------------------------- ensureK0sConfig
\* config.PatchK0sConfig: the fragment merged onto the config, key by key;
\* a fragment that cannot be merged is an error.
PatchK0sConfig(c, frag) ==
  IF frag.kind = "malformed"
  THEN [cfg |-> None, err |-> <<"cannot merge patch">>]
  ELSE [cfg |-> Some([k \in Keys |->
                        IF frag.k0s[k] = Unset THEN c[k] ELSE frag.k0s[k]]),
        err |-> Nil]

\* release.GetEmbeddedClusterConfig(): an error, nil, or a config whose
\* Spec.UnsupportedOverrides.K0s is the fragment.
EmbeddedInputs ==
  { Fragment("error", NoOverrides), Fragment("nil", NoOverrides) } \cup Fragments
\* helpers.ParseEndUserConfig(path): an error, or a config whose
\* Spec.UnsupportedOverrides.K0s is the fragment.
EndUserInputs == { Fragment("error", NoOverrides) } \cup Fragments

\* EmbeddedPatch with the error of the patch dropped
EmbeddedPatch_ErrorDropped(c, emb) ==
  IF emb.kind \in {"nil", "malformed"}
  THEN [cfg |-> Some(c), err |-> Nil]
  ELSE PatchK0sConfig(c, emb)

\* The embedded overrides patched onto the config (nothing to patch when
\* the binary embeds no cluster config), and the end user's.
EmbeddedPatch(c, emb) ==
  IF emb.kind = "nil" THEN [cfg |-> Some(c), err |-> Nil] ELSE PatchK0sConfig(c, emb)
EndUserPatch(c, eu) == PatchK0sConfig(c, eu)

\* applyUnsupportedOverrides patching the end user's overrides first
applyUnsupportedOverrides_UserFirst(overridesFlag, c, emb, eu) ==
  IF emb.kind = "error"
  THEN [cfg |-> None,
        err |-> Wrap("unable to get embedded cluster config", <<"malformed release">>),
        did |-> <<>>]
  ELSE
    LET p1 == EmbeddedPatch(c, emb)
        d1 == IF emb.kind = "nil"
              THEN <<>>
              ELSE << Op("PatchK0sConfig embedded", p1.err) >>
    IN  IF p1.err # Nil
        THEN [cfg |-> None, err |-> Wrap("unable to patch k0s config", p1.err),
              did |-> d1]
        ELSE IF overridesFlag = ""
        THEN [cfg |-> p1.cfg, err |-> Nil, did |-> d1]
        ELSE IF eu.kind = "error"
        THEN [cfg |-> None,
              err |-> Wrap("unable to process overrides file", <<"cannot parse overrides">>),
              did |-> d1 \o << Op("ParseEndUserConfig", <<"cannot parse overrides">>) >>]
        ELSE
          LET p2 == EndUserPatch(c, eu)
              d2 == d1 \o << Op("ParseEndUserConfig", Nil),
                             Op("PatchK0sConfig user", p2.err) >>
          IN  IF p2.err # Nil
              THEN [cfg |-> None, err |-> Wrap("unable to apply overrides", p2.err),
                    did |-> d2]
              ELSE [cfg |-> EmbeddedPatch(Get(p2.cfg), emb).cfg, err |-> Nil, did |-> d2]

\* The config and error applyUnsupportedOverrides returns, and the calls it
\* makes.  eu is what ParseEndUserConfig would return for the --overrides path.
applyUnsupportedOverrides(overridesFlag, c, emb, eu) ==
  IF emb.kind = "error"
  THEN [cfg |-> None,
        err |-> Wrap("unable to get embedded cluster config", <<"malformed release">>),
        did |-> <<>>]
  ELSE
    LET p1 == EmbeddedPatch(c, emb)
        d1 == IF emb.kind = "nil"
              THEN <<>>
              ELSE << Op("PatchK0sConfig embedded", p1.err) >>
    IN  IF p1.err # Nil
        THEN [cfg |-> None, err |-> Wrap("unable to patch k0s config", p1.err),
              did |-> d1]
        ELSE IF overridesFlag = ""
        THEN [cfg |-> p1.cfg, err |-> Nil, did |-> d1]
        ELSE IF eu.kind = "error"
        THEN [cfg |-> None,
              err |-> Wrap("unable to process overrides file", <<"cannot parse overrides">>),
              did |-> d1 \o << Op("ParseEndUserConfig", <<"cannot parse overrides">>) >>]
        ELSE
          LET p2 == EndUserPatch(Get(p1.cfg), eu)
              d2 == d1 \o << Op("ParseEndUserConfig", Nil),
                             Op("PatchK0sConfig user", p2.err) >>
          IN  IF p2.err # Nil
              THEN [cfg |-> None, err |-> Wrap("unable to apply overrides", p2.err),
                    did |-> d2]
              ELSE [cfg |-> p2.cfg, err |-> Nil, did |-> d2]

\* The steps of ensureK0sConfig before the overrides that may fail, in order.
ConfigFailPoints == {"none", "mkdir", "render", "license", "helm"}
ConfigFailure(at, licenseFlag) ==
  CASE at = "mkdir" -> Wrap("unable to create directory", <<"mkdir failed">>)
    [] at = "render" -> Wrap("unable to render config", <<"render failed">>)
    [] at = "license" /\ licenseFlag # "" ->
         Wrap("unable to parse license", <<"corrupt license">>)
    [] at = "helm" -> Wrap("unable to update helm configs", <<"helm failed">>)
    [] OTHER -> Nil

ConfigErr(err) == Wrap("unable to create config file", err)

\* ensureK0sConfig up to config.UpdateHelmConfigs
InstallConfigRender ==
  /\ cmd = "install" /\ pc = "config"
  /\ hpf' = None /\ output' = None
  /\ \E st \in StatOutcomes(k0sConfig), at \in ConfigFailPoints :
       LET pre == << Begin("config"), Op("os.Stat k0s.yaml", StatErr(st)) >>
           err == IF st = "nil"
                  THEN <<"configuration file already exists">>
                  ELSE ConfigFailure(at, flags.license)
       IN  IF err # Nil
           THEN /\ InstallStep(pre, "config", "install", err,
                               ConfigErr(err), ConfigErr(err))
                /\ cfg' = None
           ELSE /\ events' = events \o pre
                /\ cfg' = Some(DefaultConfig)
                /\ pc' = "overrides" /\ result' = result
  /\ UNCHANGED << host, runs, ctxDone, pkgconfig, concurrent, cmd, flags, env, embcfg, eucfg, i,
                  jcmd, channelRelease, licenseSpec >>

\* ensureK0sConfig: applyUnsupportedOverrides
InstallConfigOverrides ==
  /\ cmd = "install" /\ pc = "overrides"
  /\ \E emb \in EmbeddedInputs, eu \in EndUserInputs :
       LET r == applyUnsupportedOverrides(flags.overrides, Get(cfg), emb, eu)
           rerr == IF r.err = Nil THEN Nil
                   ELSE Wrap("unable to apply unsupported overrides", r.err)
       IN  /\ embcfg' = Some(emb)
           /\ eucfg' = (IF flags.overrides = "" \/ emb.kind \in {"error", "malformed"}
                        THEN None ELSE Some(eu))
           /\ cfg' = r.cfg
           /\ IF rerr # Nil
              THEN InstallStep(r.did, "config", "install", rerr,
                               ConfigErr(rerr), ConfigErr(rerr))
              ELSE /\ events' = events \o r.did
                   /\ pc' = "cfgwrite" /\ result' = result
  /\ UNCHANGED << host, runs, ctxDone, pkgconfig, concurrent, cmd, flags, env, hpf, output, i,
                  jcmd, channelRelease, licenseSpec >>

\* k8syaml.Marshal(cfg), os.OpenFile(cfgpath, O_RDWR|O_CREATE) and
\* fp.Write(data)
InstallConfigWrite ==
  /\ cmd = "install" /\ pc = "cfgwrite"
  /\ \E marshalled \in BOOLEAN : \E opened \in {marshalled, FALSE} :
     \E written \in {opened, FALSE} :
       LET oerr == IF opened THEN Nil ELSE <<"open failed">>
           werr == IF written THEN Nil ELSE <<"write failed">>
           open == Op("os.OpenFile k0s.yaml", oerr)
           write == Op("fp.Write", werr)
           err == IF ~marshalled
                  THEN Wrap("unable to marshal config", <<"marshal failed">>)
                  ELSE IF ~opened THEN Wrap("unable to create config file", oerr)
                  ELSE IF ~written THEN Wrap("unable to write config file", werr)
                  ELSE Nil
       IN  /\ InstallStep((IF marshalled THEN << open >> ELSE <<>>)
                            \o (IF opened THEN << write >> ELSE <<>>),
                          "config", "install", err, ConfigErr(err), ConfigErr(err))
           /\ k0sConfig' = IF ~opened THEN k0sConfig
                           ELSE IF written THEN WrittenFile
                           ELSE IF k0sConfig.exists THEN k0sConfig
                           ELSE EmptyFile
  /\ cfg' = None /\ embcfg' = None /\ eucfg' = None
  /\ UNCHANGED << ourbin, hstbin, k0sInstalled, k0sStarted, symlink, socket,
                  runs, ctxDone, pkgconfig, concurrent, cmd, flags, env, hpf, output, i,
                  jcmd, channelRelease, licenseSpec >>

\* ------------------------------------------------------------------ installK0s
\* os.Rename(ourbin, hstbin), then "k0s install ...", then "k0s start"; each
\* runs only if the one before succeeded.  The rename needs the materialized
\* binary.
\* installK0s going on to "k0s start" whatever "k0s install" returned
installK0s_InstallErrorIgnored(renamed, installed, started) ==
  LET rerr == IF renamed THEN Nil ELSE <<"rename failed">>
      ierr == IF installed THEN Nil ELSE <<"exit status 1">>
      serr == IF started THEN Nil ELSE <<"exit status 1">>
  IN  [did |-> << Op("os.Rename k0s", rerr) >>
                 \o (IF renamed THEN << Op("k0s install", ierr) >> ELSE <<>>)
                 \o (IF renamed THEN << Op("k0s start", serr) >> ELSE <<>>),
       err |-> IF ~renamed THEN Wrap("unable to move k0s binary", rerr)
               ELSE IF ~started THEN Wrap("unable to start", serr)
               ELSE Nil]

\* What installK0s does and returns, given how its three calls turn out
installK0s(renamed, installed, started) ==
  LET rerr == IF renamed THEN Nil ELSE <<"rename failed">>
      ierr == IF installed THEN Nil ELSE <<"exit status 1">>
      serr == IF started THEN Nil ELSE <<"exit status 1">>
  IN  [did |-> << Op("os.Rename k0s", rerr) >>
                 \o (IF renamed THEN << Op("k0s install", ierr) >> ELSE <<>>)
                 \o (IF renamed /\ installed THEN << Op("k0s start", serr) >> ELSE <<>>),
       err |-> IF ~renamed THEN Wrap("unable to move k0s binary", rerr)
               ELSE IF ~installed THEN Wrap("unable to install", ierr)
               ELSE IF ~started THEN Wrap("unable to start", serr)
               ELSE Nil]

InstallK0s ==
  /\ cmd = "install" /\ pc = "install"
  /\ \E renamed \in {ourbin, FALSE}, installed \in BOOLEAN, started \in BOOLEAN :
       LET r == installK0s(renamed, installed, started)
           werr == Wrap("unable update cluster", r.err)
       IN  /\ InstallStep(<< Begin("install") >> \o r.did, "install", "postinstall",
                          r.err, werr, werr)
           /\ ourbin' = (ourbin /\ ~renamed)
           /\ hstbin' = (hstbin \/ renamed)
           /\ k0sInstalled' = (k0sInstalled \/ (renamed /\ installed))
           /\ k0sStarted' = (k0sStarted \/ (renamed /\ installed /\ started))
  /\ UNCHANGED << k0sConfig, symlink, socket, runs, ctxDone, pkgconfig, concurrent, cmd, flags, env, locals >>

\* ------------------------------------------------------------- runPostInstall
\* runPostInstall trying systemctl daemon-reload a second time when it failed
runPostInstall_ReloadRetried ==
  /\ cmd = "install" /\ pc = "postinstall"
  /\ \E linked \in {~symlink, FALSE}, reloaded \in BOOLEAN, again \in BOOLEAN :
       LET lerr == IF linked THEN Nil ELSE <<"symlink failed">>
           derr == IF reloaded THEN Nil ELSE <<"exit status 1">>
           aerr == IF again THEN Nil ELSE <<"exit status 1">>
           did == << Op("os.Symlink", lerr) >>
                    \o (IF linked THEN << Op("systemctl daemon-reload", derr) >> ELSE <<>>)
                    \o (IF linked /\ ~reloaded
                        THEN << Op("systemctl daemon-reload", aerr) >> ELSE <<>>)
           err == IF ~linked THEN Wrap("failed to create symlink", lerr)
                  ELSE IF ~reloaded /\ ~again
                  THEN Wrap("unable to get reload systemctl daemon", aerr)
                  ELSE Nil
           werr == Wrap("unable to run post install", err)
       IN  /\ InstallStep(<< Begin("postinstall") >> \o did, "postinstall", "wait",
                          err, werr, werr)
           /\ symlink' = (symlink \/ linked)
  /\ UNCHANGED << k0sConfig, ourbin, hstbin, k0sInstalled, k0sStarted, socket,
                  runs, ctxDone, pkgconfig, concurrent, cmd, flags, env, locals >>

\* os.Symlink fails when the link is already there.
runPostInstall ==
  /\ cmd = "install" /\ pc = "postinstall"
  /\ \E linked \in {~symlink, FALSE}, reloaded \in BOOLEAN :
       LET lerr == IF linked THEN Nil ELSE <<"symlink failed">>
           derr == IF reloaded THEN Nil ELSE <<"exit status 1">>
           did == << Op("os.Symlink", lerr) >>
                    \o (IF linked THEN << Op("systemctl daemon-reload", derr) >> ELSE <<>>)
           err == IF ~linked THEN Wrap("failed to create symlink", lerr)
                  ELSE IF ~reloaded THEN Wrap("unable to get reload systemctl daemon", derr)
                  ELSE Nil
           werr == Wrap("unable to run post install", err)
       IN  /\ InstallStep(<< Begin("postinstall") >> \o did, "postinstall", "wait",
                          err, werr, werr)
           /\ symlink' = (symlink \/ linked)
  /\ UNCHANGED << k0sConfig, ourbin, hstbin, k0sInstalled, k0sStarted, socket,
                  runs, ctxDone, pkgconfig, concurrent, cmd, flags, env, locals >>

\* ----------------------------------------------------------------- waitForK0s
\* The started k0s creates its status socket at a time of its own choosing.
SocketAppears ==
  /\ k0sStarted /\ ~socket
  /\ socket' = TRUE
  /\ UNCHANGED << k0sConfig, ourbin, hstbin, k0sInstalled, k0sStarted, symlink,
                  runs, ctxDone, pkgconfig, concurrent, cmd, pc, flags, result, events, env, locals >>

WaitErr(err) == Wrap("unable to wait for node", err)

\* The caller cancels the context handed to waitForK0s while it loops.
Cancel ==
  /\ cmd = "install" /\ pc = "wait"
  /\ ~ctxDone
  /\ ctxDone' = TRUE
  /\ UNCHANGED << host, runs, pkgconfig, concurrent, cmd, pc, flags, result, events, env, locals >>

\* waitOutcome without the test of success after the loop
waitOutcome_NoSuccessTest(st, n) ==
  IF st = "nil" \/ n + 1 >= WaitAttempts THEN "break" ELSE "continue"

\* waitOutcome without the break
waitOutcome_NoBreak(st, n) ==
  IF n + 1 < WaitAttempts THEN "continue" ELSE "timeout"

\* Where the n+1st turn of the loop leads, given what os.Stat returned:
\* success and break, continue, or the loop's end without success.
waitOutcome(st, n) ==
  IF st = "nil" THEN "break"
  ELSE IF n + 1 < WaitAttempts THEN "continue"
  ELSE "timeout"

\* One turn of the loop: sleep 2s, stat the socket.  i lives in the loop only.
WaitPoll ==
  /\ cmd = "install" /\ pc = "wait"
  /\ i < WaitAttempts
  /\ \E st \in StatOutcomes([exists |-> socket, written |-> FALSE]) :
       LET pre == IF i = 0 THEN << Begin("wait") >> ELSE <<>>
           terr == <<"timeout waiting for embedded-cluster">>
       IN  IF waitOutcome(st, i) = "break"
           THEN /\ events' = events \o pre
                /\ pc' = "status" /\ i' = 0 /\ result' = result
           ELSE IF waitOutcome(st, i) = "continue"
           THEN /\ events' = events \o pre
                /\ pc' = "wait" /\ i' = i + 1 /\ result' = result
           ELSE /\ InstallStep(pre, "wait", "outro", terr,
                               WaitErr(terr), WaitErr(terr))
                /\ i' = 0
  /\ UNCHANGED << host, runs, ctxDone, pkgconfig, concurrent, cmd, flags, env, hpf, output, cfg, embcfg, eucfg,
                  jcmd, channelRelease, licenseSpec >>

\* "k0s status" once the socket was seen
WaitStatus ==
  /\ cmd = "install" /\ pc = "status"
  /\ \E ok \in BOOLEAN :
       LET cause == IF ok THEN Nil ELSE <<"exit status 1">>
           err == IF ok THEN Nil ELSE Wrap("unable to get status", cause)
       IN  InstallStep(<< Op("k0s status", cause) >>, "wait", "outro",
                       err, WaitErr(err), WaitErr(err))
  /\ UNCHANGED << host, runs, ctxDone, pkgconfig, concurrent, cmd, flags, env, locals >>

\* -------------------------------------------------------------------- runOutro
\* runOutro removing the k0s config file when it fails
runOutro_RollsBack ==
  /\ cmd = "install" /\ pc = "outro"
  /\ env' = env \cup {"KUBECONFIG"}
  /\ \E at \in {"none", "license", "overrides", "outro"} :
       LET err == CASE at = "license" /\ flags.license # "" ->
                         Wrap("unable to parse license", <<"corrupt license">>)
                    [] at = "overrides" /\ flags.overrides # "" ->
                         Wrap("unable to load overrides", <<"cannot parse overrides">>)
                    [] at = "outro" -> <<"outro failed">>
                    [] OTHER -> Nil
           did == IF at \in {"none", "outro"}
                  THEN << Op("applier.Outro", err) >>
                  ELSE IF err = Nil THEN << Op("applier.Outro", Nil) >> ELSE <<>>
       IN  IF err = Nil
           THEN /\ \E sent \in BOOLEAN :
                     events' = events \o << Begin("outro") >> \o did
                                 \o << End("outro", Nil),
                                       Metric("ReportApplyFinished", Nil, sent) >>
                /\ pc' = "done" /\ result' = Nil
                /\ k0sConfig' = k0sConfig
           ELSE /\ InstallStep(<< Begin("outro") >> \o did, "outro", "done",
                               err, err, err)
                /\ k0sConfig' = NoFile
  /\ UNCHANGED << ourbin, hstbin, k0sInstalled, k0sStarted, symlink, socket,
                  runs, ctxDone, pkgconfig, concurrent, cmd, flags, locals >>

\* Sets KUBECONFIG, parses the license and the overrides when given, and
\* calls the addons' Outro.  After it the Action reports the end and returns.
runOutro ==
  /\ cmd = "install" /\ pc = "outro"
  /\ env' = env \cup {"KUBECONFIG"}
  /\ \E at \in {"none", "license", "overrides", "outro"} :
       LET err == CASE at = "license" /\ flags.license # "" ->
                         Wrap("unable to parse license", <<"corrupt license">>)
                    [] at = "overrides" /\ flags.overrides # "" ->
                         Wrap("unable to load overrides", <<"cannot parse overrides">>)
                    [] at = "outro" -> <<"outro failed">>
                    [] OTHER -> Nil
           did == IF at \in {"none", "outro"}
                  THEN << Op("applier.Outro", err) >>
                  ELSE IF err = Nil THEN << Op("applier.Outro", Nil) >> ELSE <<>>
       IN  IF err = Nil
           THEN /\ \E sent \in BOOLEAN :
                     events' = events \o << Begin("outro") >> \o did
                                 \o << End("outro", Nil),
                                       Metric("ReportApplyFinished", Nil, sent) >>
                /\ pc' = "done" /\ result' = Nil
           ELSE InstallStep(<< Begin("outro") >> \o did, "outro", "done",
                            err, err, err)
  /\ UNCHANGED << host, runs, ctxDone, pkgconfig, concurrent, cmd, flags, locals >>

\* ================================================ the run-preflights commands
\* setProxyEnv: the proxy variables of a proxy spec, none for a nil spec.
ProxyVars == {"HTTP_PROXY", "HTTPS_PROXY", "NO_PROXY"}
setProxyEnv(proxy) == IF proxy = "nil" THEN env ELSE env \cup ProxyVars

\* checkProxyConfigForLocalIP: whether the no-proxy list exempts the local
\* address; nothing to check without a proxy.
ProxySpecs == {"nil", "exempts local IP", "proxies local IP"}
checkProxyConfigForLocalIP(proxy, resolved) ==
  IF proxy = "nil" THEN [ok |-> TRUE, err |-> Nil]
  ELSE IF ~resolved THEN [ok |-> FALSE, err |-> <<"cannot resolve local IP">>]
  ELSE [ok |-> proxy = "exempts local IP", err |-> Nil]

JoinCommands == [EmbeddedClusterVersion : Versions, Proxy : ProxySpecs]

\* versionMismatch comparing the versions without their pre-release suffix
Release(v) == IF v = "1.2.4-rc1" THEN "1.2.4" ELSE v
versionMismatch_Release(j, running) ==
  Release(j.EmbeddedClusterVersion) # Release(running)

\* jcmd.EmbeddedClusterVersion != versions.Version
versionMismatch(j, running) == j.EmbeddedClusterVersion # running

\* RunHostPreflights once the preflights have run: the gating policy, with a
\* failing output told apart from every other error.
RunHostPreflightsGate(out, noPrompt, answer) ==
  IF HasFail(out)
  THEN [err |-> ErrPreflightsHaveFail, did |-> << PrintTable >>]
  ELSE IF ~HasWarn(out) \/ noPrompt
  THEN [err |-> Nil, did |-> << PrintTable >>]
  ELSE [err |-> IF answer THEN Nil ELSE <<"user aborted">>,
        did |-> << PrintTable, Confirm(answer) >>]

Return(did, err) ==
  /\ events' = events \o did
  /\ result' = err
  /\ pc' = "done"

InstallRunPreflightsStart ==
  \E np \in BOOLEAN, lic \in {"", "license.yaml"} :
    NewProcess("installRunPreflights",
               [NoFlags EXCEPT !.noPrompt = np, !.license = lic], "before")

\* Action of install run-preflights up to the call of RunHostPreflights
InstallRunPreflightsSetup ==
  /\ cmd = "installRunPreflights" /\ pc = "setup"
  /\ \E proxy \in ProxySpecs,
        at \in {"none", "noproxy", "license", "materialize", "applier", "port"} :
       LET set == Op("setProxyEnv", Nil)
           mat == Op("materializeFiles",
                     IF at = "materialize" THEN <<"materialize failed">> ELSE Nil)
       IN  CASE at = "noproxy" ->
                  /\ Return(<<>>, <<"cannot find local IP">>)
                  /\ env' = env /\ ourbin' = ourbin
             [] at = "license" ->
                  /\ Return(<< set >>, <<"cannot read license">>)
                  /\ env' = setProxyEnv(proxy) /\ ourbin' = ourbin
             [] at = "materialize" ->
                  /\ Return(<< set, mat >>, <<"materialize failed">>)
                  /\ env' = setProxyEnv(proxy) /\ ourbin' = ourbin
             [] at = "applier" ->
                  /\ Return(<< set, mat >>, <<"cannot create applier">>)
                  /\ env' = setProxyEnv(proxy) /\ ourbin' = TRUE
             [] at = "port" ->
                  /\ Return(<< set, mat >>,
                            Wrap("unable to parse admin console port", <<"invalid port">>))
                  /\ env' = setProxyEnv(proxy) /\ ourbin' = TRUE
             [] OTHER ->
                  /\ events' = events \o << set, mat >>
                  /\ result' = result /\ pc' = "pfrun"
                  /\ env' = setProxyEnv(proxy) /\ ourbin' = TRUE
  /\ UNCHANGED << k0sConfig, hstbin, k0sInstalled, k0sStarted, symlink, socket,
                  runs, ctxDone, pkgconfig, concurrent, cmd, flags, locals >>

JoinRunPreflightsStart ==
  \E np \in BOOLEAN, n \in 1..2, v \in Versions :
    NewProcess("joinRunPreflights",
               [NoFlags EXCEPT !.noPrompt = np, !.nargs = n, !.version = v],
               "before")

\* Action of join run-preflights up to the version check
JoinRunPreflightsFetch ==
  /\ cmd = "joinRunPreflights" /\ pc = "fetch"
  /\ \E fetched \in BOOLEAN, j \in JoinCommands :
       IF flags.nargs # 2
       THEN /\ Return(<<>>, <<"usage: join preflights <url> <token>">>)
            /\ jcmd' = jcmd
       ELSE IF ~fetched
       THEN /\ Return(<< Op("getJoinToken", <<"request failed">>) >>,
                      Wrap("unable to get join token", <<"request failed">>))
            /\ jcmd' = jcmd
       ELSE IF versionMismatch(j, flags.version)
       THEN /\ Return(<< Op("getJoinToken", Nil) >>,
                      <<"embedded cluster version mismatch">>)
            /\ jcmd' = Some(j)
       ELSE /\ events' = events \o << Op("getJoinToken", Nil) >>
            /\ result' = result /\ pc' = "proxy"
            /\ jcmd' = Some(j)
  /\ UNCHANGED << host, runs, ctxDone, pkgconfig, concurrent, cmd, flags, env, hpf, output, cfg, embcfg, eucfg, i,
                  channelRelease, licenseSpec >>

\* proxyCheckErr looking at the error of the check only
proxyCheckErr_ErrOnly(r) ==
  IF r.err # Nil
  THEN Wrap("failed to check proxy config for local IP", r.err)
  ELSE Nil

\* What the Action makes of proxyOK, localIP, err
proxyCheckErr(r) ==
  IF r.err # Nil
  THEN Wrap("failed to check proxy config for local IP", r.err)
  ELSE IF ~r.ok
  THEN <<"no-proxy config does not allow access to local IP">>
  ELSE Nil

\* setProxyEnv and checkProxyConfigForLocalIP
JoinRunPreflightsProxy ==
  /\ cmd = "joinRunPreflights" /\ pc = "proxy"
  /\ env' = setProxyEnv(Get(jcmd).Proxy)
  /\ \E resolved \in BOOLEAN :
       LET r == checkProxyConfigForLocalIP(Get(jcmd).Proxy, resolved)
           did == << Op("setProxyEnv", Nil), Op("checkProxyConfigForLocalIP", r.err) >>
           err == proxyCheckErr(r)
       IN  IF err # Nil
           THEN Return(did, err)
           ELSE /\ events' = events \o did
                /\ result' = result /\ pc' = "setup"
  /\ UNCHANGED << host, runs, ctxDone, pkgconfig, concurrent, cmd, flags, locals >>

\* materializeFiles, getAddonsApplier and the ports
JoinRunPreflightsSetup ==
  /\ cmd = "joinRunPreflights" /\ pc = "setup"
  /\ \E at \in {"none", "materialize", "applier", "url", "port"} :
       LET mat == Op("materializeFiles",
                     IF at = "materialize" THEN <<"materialize failed">> ELSE Nil)
       IN  CASE at = "materialize" ->
                  /\ Return(<< mat >>, <<"materialize failed">>)
                  /\ ourbin' = ourbin
             [] at = "applier" ->
                  /\ Return(<< mat >>, <<"cannot create applier">>)
                  /\ ourbin' = TRUE
             [] at = "url" ->
                  /\ Return(<< mat >>, <<"unable to get port from url">>)
                  /\ ourbin' = TRUE
             [] at = "port" ->
                  /\ Return(<< mat >>,
                            Wrap("unable to convert port to int", <<"invalid syntax">>))
                  /\ ourbin' = TRUE
             [] OTHER ->
                  /\ events' = events \o << mat >>
                  /\ result' = result /\ pc' = "pfrun"
                  /\ ourbin' = TRUE
  /\ UNCHANGED << k0sConfig, hstbin, k0sInstalled, k0sStarted, symlink, socket,
                  runs, ctxDone, pkgconfig, concurrent, cmd, flags, env, locals >>

RunPreflightsCommands == {"installRunPreflights", "joinRunPreflights"}

\* RunHostPreflights up to the output of the preflights
RunHostPreflightsRun ==
  /\ cmd \in RunPreflightsCommands /\ pc = "pfrun"
  /\ \E read \in BOOLEAN, h \in HostPreflightSpecs, ran \in BOOLEAN :
     \E out \in OutputsOf(h) :
       LET rd == Op("applier.HostPreflights",
                    IF read THEN Nil ELSE <<"cannot read host preflights">>)
           run == Op("preflights.Run",
                     IF ran THEN Nil ELSE <<"preflights did not run">>)
       IN  IF ~read
           THEN /\ Return(<< rd >>, Wrap("unable to read host preflights", rd.e))
                /\ hpf' = hpf /\ output' = output
           ELSE IF NoChecks(h)
           THEN /\ Return(<< rd, Ev("log", "Host preflights completed successfully", Nil, "") >>,
                          Nil)
                /\ hpf' = Some(h) /\ output' = output
           ELSE IF ~ran
           THEN /\ Return(<< rd, run >>, Wrap("host preflights failed", run.e))
                /\ hpf' = Some(h) /\ output' = output
           ELSE /\ events' = events \o << rd, run >>
                /\ result' = result /\ pc' = "pfgate"
                /\ hpf' = Some(h) /\ output' = Some(out)
  /\ UNCHANGED << host, runs, ctxDone, pkgconfig, concurrent, cmd, flags, env, cfg, embcfg, eucfg, i,
                  jcmd, channelRelease, licenseSpec >>

\* The gate, and what the Action of either command makes of its error
RunHostPreflightsGated ==
  /\ cmd \in RunPreflightsCommands /\ pc = "pfgate"
  /\ \E answer \in BOOLEAN :
       LET g == RunHostPreflightsGate(Get(output), flags.noPrompt, answer)
       IN  IF g.err = ErrPreflightsHaveFail
           THEN Return(g.did, ErrNothingElseToAdd)
           ELSE IF g.err # Nil
           THEN Return(g.did, g.err)
           ELSE Return(g.did \o << Ev("log", "Host preflights completed successfully",
                                      Nil, "") >>, Nil)
  /\ UNCHANGED << host, runs, ctxDone, pkgconfig, concurrent, cmd, flags, env, locals >>

\* ============================================================== package config
\* Sets the seven images from Metadata for the running architecture, on a
\* new ClusterImages when the config has none.  It returns nothing.
overrideK0sImages(spec) ==
  LET old == IF spec.Images = None THEN ZeroClusterImages ELSE Get(spec.Images)
      entry(f) == MapGet(Metadata, MetadataName(f), ZeroImage)
      new == [f \in ImageFields |->
                IF f \in OverriddenFields
                THEN [Image |-> entry(f).Repo,
                      Version |-> MapGet(entry(f).Tag, GOARCH, "")]
                ELSE old[f]]
  IN  [spec EXCEPT !.Images = Some(new)]

\* The images ListK0sImages skips
Skipped(spec) ==
  { URI(Get(spec.Images)["KubeRouter.CNI"]),
    URI(Get(spec.Images)["KubeRouter.CNIInstaller"]),
    URI(Get(spec.Images)["Konnectivity"]),
    URI(spec.EnvoyProxy) }

\* ListK0sImages without the pause image workaround
ListK0sImages_AsEnumerated(spec, enumerated) ==
  SelectSeq(enumerated, LAMBDA image : image \notin Skipped(spec))

\* The loop over airgap.GetImageURIs(cfg.Spec, true)
RECURSIVE ListK0sImagesLoop(_, _, _)
ListK0sImagesLoop(spec, rest, list) ==
  IF rest = <<>> THEN list
  ELSE LET image == Head(rest)
       IN  IF image \in Skipped(spec)
           THEN ListK0sImagesLoop(spec, Tail(rest), list)
           ELSE IF Contains(image, KubePauseContainerImage)
           THEN ListK0sImagesLoop(spec, Tail(rest),
                                  Append(list, URI(Get(spec.Images)["Pause"])))
           ELSE ListK0sImagesLoop(spec, Tail(rest), Append(list, image))

ListK0sImages(spec, enumerated) == ListK0sImagesLoop(spec, enumerated, <<>>)

\* The configurations handed to ListK0sImages: k0s's defaults with the
\* images overridden from the shipped manifest or not, and with a
\* konnectivity image of its own or one that is the default pause image.
ListedSpecs ==
  { [base EXCEPT !.Images = Some([Get(base.Images) EXCEPT !["Konnectivity"] = k])] :
      base \in { DefaultClusterSpec,
                 [DefaultClusterSpec EXCEPT
                    !.Images = Some([f \in ImageFields |->
                       IF f \in OverriddenFields
                       THEN [Image |-> FullManifest[MetadataName(f)].Repo,
                             Version |-> FullManifest[MetadataName(f)].Tag["amd64"]]
                       ELSE DefaultClusterImages[f]])] },
      k \in { DefaultImage("Konnectivity"), DefaultPause } }

\* Image URIs an enumeration may hold: the four skipped ones, the default
\* pause image plain, mirrored and with a suffix, the pause image of the
\* manifest, and the default and the manifest's coredns.
ImageURIs ==
  { URI(DefaultImage("KubeRouter.CNI")), URI(DefaultImage("KubeRouter.CNIInstaller")),
    URI(DefaultImage("Konnectivity")), URI(DefaultEnvoyProxy),
    URI(DefaultPause),
    << "mirror.local/", "registry.k8s.io/pause", ":", "3.9" >>,
    << "registry.k8s.io/pause", "-amd64", ":", "3.9" >>,
    << "repo/pause", ":", "v1-amd64" >>,
    URI(DefaultImage("CoreDNS")),
    << "repo/coredns", ":", "v1-amd64" >> }
Enumerations == UNION { [1..n -> ImageURIs] : n \in 0..MaxLen }

\* A call of a function of the package, with its inputs
ConfigInit ==
  /\ NoProcess
  /\ images = <<>>
  /\ GOARCH \in Archs
  /\ \/ /\ call = "overrideK0sImages"
        /\ Metadata \in Manifests
        /\ clusterSpec \in { DefaultClusterSpec, [DefaultClusterSpec EXCEPT !.Images = None] }
        /\ uris = <<>>
     \/ /\ call = "ListK0sImages"
        /\ Metadata = FullManifest
        /\ clusterSpec \in ListedSpecs
        /\ uris \in Enumerations

CallOverrideK0sImages ==
  /\ call = "overrideK0sImages"
  /\ clusterSpec' = overrideK0sImages(clusterSpec)
  /\ call' = "overrideK0sImages returned"
  /\ UNCHANGED << host, runs, ctxDone, cmd, pc, flags, result, events, env, locals,
                  concurrent,
                  Metadata, GOARCH, uris, images >>

CallListK0sImages ==
  /\ call = "ListK0sImages"
  /\ images' = ListK0sImages(clusterSpec, uris)
  /\ call' = "ListK0sImages returned"
  /\ UNCHANGED << host, runs, ctxDone, cmd, pc, flags, result, events, env, locals,
                  concurrent,
                  Metadata, GOARCH, clusterSpec, uris >>

ConfigNext ==
  \/ CallOverrideK0sImages
  \/ CallListK0sImages
ConfigSpec == ConfigInit /\ [][ConfigNext]_vars

Next ==
  \/ InstallStart
  \/ Before
  \/ InstallGuard
  \/ InstallLicense
  \/ InstallMaterialize
  \/ InstallPreflightsRead
  \/ InstallPreflightsRun
  \/ InstallPreflightsGate
  \/ InstallConfigRender
  \/ InstallConfigOverrides
  \/ InstallConfigWrite
  \/ InstallK0s
  \/ runPostInstall
  \/ SocketAppears
  \/ Cancel
  \/ WaitPoll
  \/ WaitStatus
  \/ runOutro
  \/ InstallRunPreflightsStart
  \/ InstallRunPreflightsSetup
  \/ JoinRunPreflightsStart
  \/ JoinRunPreflightsFetch
  \/ JoinRunPreflightsProxy
  \/ JoinRunPreflightsSetup
  \/ RunHostPreflightsRun
  \/ RunHostPreflightsGated

Spec == Init /\ [][Next]_vars

\* The process of a command runs on until its Action returns: time.Sleep
\* returns, and so does every call the Action waits for.  Nothing obliges
\* anyone to start another command, nor k0s to create its socket.
Running ==
  \/ Before
  \/ InstallGuard
  \/ InstallLicense
  \/ InstallMaterialize
  \/ InstallPreflightsRead
  \/ InstallPreflightsRun
  \/ InstallPreflightsGate
  \/ InstallConfigRender
  \/ InstallConfigOverrides
  \/ InstallConfigWrite
  \/ InstallK0s
  \/ runPostInstall
  \/ WaitPoll
  \/ WaitStatus
  \/ runOutro
\* The install command alone: the commands a host may be given are installs,
\* k0s may create its socket, and the context may be cancelled.
InstallNext ==
  \/ InstallStart
  \/ Running
  \/ SocketAppears
  \/ Cancel
FairSpec == Init /\ [][InstallNext]_vars /\ WF_vars(Running)

\* An install in which nothing goes wrong: no overrides file, no host
\* preflight checks, and every call returning nil, but for the two os.Stat
\* of the k0s config file of a fresh host, which find no file.  A run may
\* still be refused by the entry guard.
Success ==
  /\ cmd \in {"none", "install"}
  /\ flags.overrides = ""
  /\ Has(hpf) => NoChecks(Get(hpf))
  /\ result \in {Nil, ErrNothingElseToAdd}
  /\ \A j \in DOMAIN events :
       events[j].e # Nil => events[j] = Op("os.Stat k0s.yaml", StatErr("notexist"))

\* The installs in which nothing goes wrong and the status socket is there
\* by the last check of waitForK0s at the latest.
SuccessNext ==
  \/ InstallStart /\ Success'
  \/ Before /\ Success'
  \/ InstallGuard /\ Success'
  \/ InstallLicense /\ Success'
  \/ InstallMaterialize /\ Success'
  \/ InstallPreflightsRead /\ Success'
  \/ InstallPreflightsRun /\ Success'
  \/ InstallConfigRender /\ Success'
  \/ InstallConfigOverrides /\ Success'
  \/ InstallConfigWrite /\ Success'
  \/ InstallK0s /\ Success'
  \/ runPostInstall /\ Success'
  \/ SocketAppears
  \/ Cancel
  \/ WaitPoll /\ Success'
  \/ WaitStatus /\ Success'
  \/ runOutro /\ Success'
SuccessSpec ==
  /\ Init /\ [][SuccessNext]_vars
  /\ WF_vars(Running /\ Success')
  /\ WF_vars(SocketAppears)

\* ========================================================= concurrent installs
\* Several installs invoked at the same time on one host, each followed from
\* its Before hook to its call of installK0s: the part of the Action that
\* looks for the k0s config file and creates it.  Their steps interleave;
\* the file is the one thing they share.
single == << runs, ctxDone, cmd, pc, flags, result, events, env, locals, pkgconfig >>
Goes(p, where, err) == concurrent' = [concurrent EXCEPT ![p] = Invocation(where, err)]

\* The process start and the Before hook
ConcurrentStart(p) ==
  /\ concurrent[p].pc = "idle"
  /\ \E root \in BOOLEAN :
       IF root THEN Goes(p, "guard", Nil)
       ELSE Goes(p, "done", <<"install command must be run as root">>)
  /\ UNCHANGED << host, single >>

\* Action: isAlreadyInstalled
ConcurrentGuard(p) ==
  /\ concurrent[p].pc = "guard"
  /\ \E st \in StatOutcomes(k0sConfig) :
       LET r == isAlreadyInstalled(st)
       IN  IF r.err # Nil THEN Goes(p, "done", r.err)
           ELSE IF r.installed THEN Goes(p, "done", ErrNothingElseToAdd)
           ELSE Goes(p, "phases", Nil)
  /\ UNCHANGED << host, single >>

\* Action: checkLicenseMatches, goods.Materialize and runHostPreflights
ConcurrentPhases(p) ==
  /\ concurrent[p].pc = "phases"
  /\ \E failed \in {"none", "license", "materialize", "preflights"} :
       /\ ourbin' = (ourbin \/ failed \in {"none", "preflights"})
       /\ CASE failed = "license" -> Goes(p, "done", <<"license check failed">>)
            [] failed = "materialize" ->
                 Goes(p, "done", Wrap("unable to materialize binaries",
                                      <<"materialize failed">>))
            [] failed = "preflights" ->
                 Goes(p, "done", PreflightsErr(<<"preflights failed">>))
            [] OTHER -> Goes(p, "config", Nil)
  /\ UNCHANGED << k0sConfig, hstbin, k0sInstalled, k0sStarted, symlink, socket, single >>

\* ensureK0sConfig up to applyUnsupportedOverrides
ConcurrentConfigCheck(p) ==
  /\ concurrent[p].pc = "config"
  /\ \E st \in StatOutcomes(k0sConfig), at \in ConfigFailPoints \cup {"overrides"} :
       LET err == IF st = "nil"
                  THEN <<"configuration file already exists">>
                  ELSE IF at = "overrides"
                  THEN Wrap("unable to apply unsupported overrides",
                            <<"overrides failed">>)
                  ELSE ConfigFailure(at, "license.yaml")
       IN  IF err # Nil THEN Goes(p, "done", ConfigErr(err))
           ELSE Goes(p, "cfgwrite", Nil)
  /\ UNCHANGED << host, single >>

\* ConcurrentConfigWrite opening the file with O_EXCL
ConcurrentConfigWrite_Exclusive(p) ==
  /\ concurrent[p].pc = "cfgwrite"
  /\ \E marshalled \in BOOLEAN : \E opened \in {marshalled /\ ~k0sConfig.exists, FALSE} :
     \E written \in {opened, FALSE} :
       LET err == IF ~marshalled
                  THEN Wrap("unable to marshal config", <<"marshal failed">>)
                  ELSE IF ~opened
                  THEN Wrap("unable to create config file", <<"open failed">>)
                  ELSE IF ~written
                  THEN Wrap("unable to write config file", <<"write failed">>)
                  ELSE Nil
       IN  /\ IF err # Nil THEN Goes(p, "done", ConfigErr(err))
              ELSE Goes(p, "install", Nil)
           /\ k0sConfig' = IF ~opened THEN k0sConfig
                           ELSE IF written THEN WrittenFile
                           ELSE IF k0sConfig.exists THEN k0sConfig
                           ELSE EmptyFile
  /\ UNCHANGED << ourbin, hstbin, k0sInstalled, k0sStarted, symlink, socket, single >>

\* ensureK0sConfig: k8syaml.Marshal(cfg), os.OpenFile(cfgpath,
\* O_RDWR|O_CREATE), which opens the file that is there and creates the one
\* that is not, and fp.Write(data).  After it the Action calls installK0s.
ConcurrentConfigWrite(p) ==
  /\ concurrent[p].pc = "cfgwrite"
  /\ \E marshalled \in BOOLEAN : \E opened \in {marshalled, FALSE} :
     \E written \in {opened, FALSE} :
       LET err == IF ~marshalled
                  THEN Wrap("unable to marshal config", <<"marshal failed">>)
                  ELSE IF ~opened
                  THEN Wrap("unable to create config file", <<"open failed">>)
                  ELSE IF ~written
                  THEN Wrap("unable to write config file", <<"write failed">>)
                  ELSE Nil
       IN  /\ IF err # Nil THEN Goes(p, "done", ConfigErr(err))
              ELSE Goes(p, "install", Nil)
           /\ k0sConfig' = IF ~opened THEN k0sConfig
                           ELSE IF written THEN WrittenFile
                           ELSE IF k0sConfig.exists THEN k0sConfig
                           ELSE EmptyFile
  /\ UNCHANGED << ourbin, hstbin, k0sInstalled, k0sStarted, symlink, socket, single >>

ConcurrentNext ==
  \E p \in Invocations :
    \/ ConcurrentStart(p)
    \/ ConcurrentGuard(p)
    \/ ConcurrentPhases(p)
    \/ ConcurrentConfigCheck(p)
    \/ ConcurrentConfigWrite(p)

ConcurrentSpec == Init /\ [][ConcurrentNext]_vars

\* ====================================================================== claims
Installing == cmd = "install"
Begins == SelectSeq(events, LAMBDA e : e.k = "begin")
Ends == SelectSeq(events, LAMBDA e : e.k = "end")
Ops == SelectSeq(events, LAMBDA e : e.k = "op")
Reports == SelectSeq(events, LAMBDA e : e.k = "metric")
Did(n) == \E j \in DOMAIN events : events[j].k = "op" /\ events[j].n = n
Times(n) == Len(SelectSeq(events, LAMBDA e : e.k = "op" /\ e.n = n))
PhaseIndex(p) == CHOOSE j \in DOMAIN PhaseOrder : PhaseOrder[j] = p
StatOp(e) == Op("os.Stat k0s.yaml", e)

\* C1: when the k0s config file exists as the install action starts, the
\* action returns an error, which is ErrNothingElseToAdd when the existence
\* check itself succeeded, and does nothing but that check: no telemetry, no
\* license check, no materialization, no preflight, no config write, no
\* process, no change to the host or to the environment.
C1_AlreadyInstalledGuard ==
  [][ (Installing /\ pc = "guard" /\ k0sConfig.exists /\ pc' # pc)
        => /\ pc' = "done"
           /\ result' # Nil
           /\ events' \in { << StatOp(Nil) >>, << StatOp(StatErr("other")) >> }
           /\ (events' = << StatOp(Nil) >> => result' = ErrNothingElseToAdd)
           /\ UNCHANGED << host, env >> ]_vars

\* C1, reached: a second install on an installed host has returned
\* ErrNothingElseToAdd having only checked the file.
C1_Witness ==
  /\ Installing /\ pc = "done" /\ runs = 2
  /\ k0sConfig = WrittenFile /\ k0sStarted
  /\ result = ErrNothingElseToAdd
  /\ events = << StatOp(Nil) >>

\* C2: the phases of an install run begin in the declared order, each after
\* every earlier one returned success (the config phase having written the
\* marker), and none begins after a phase failed.
C2_PhaseOrder ==
  Installing =>
    /\ \A q \in DOMAIN events :
         events[q].k = "begin" =>
           \A m \in 1..(PhaseIndex(events[q].n) - 1) :
             \E r \in 1..(q - 1) :
               /\ events[r] = End(PhaseOrder[m], Nil)
               /\ \E b \in 1..(r - 1) : events[b] = Begin(PhaseOrder[m])
    /\ \A q, r \in DOMAIN events :
         (events[q].k = "begin" /\ events[r].k = "begin" /\ q < r)
           => PhaseIndex(events[q].n) < PhaseIndex(events[r].n)
    /\ \A r \in DOMAIN events :
         (events[r].k = "end" /\ events[r].e # Nil)
           => \A q \in (r + 1)..Len(events) : events[q].k # "begin"
    /\ (\E q \in DOMAIN events : events[q] = Begin("install"))
         => k0sConfig = WrittenFile

\* C2, reached: a run that went through all eight phases and returned nil.
C2_Witness ==
  /\ Installing /\ pc = "done" /\ result = Nil
  /\ Len(Begins) = Len(PhaseOrder)
  /\ Len(Ends) = Len(PhaseOrder)

\* C3: an install run that passed the entry guard reports apply-started,
\* once, before its first phase; when it has returned it has reported
\* apply-finished, once and last of all, with nil exactly when it returned
\* nil; and the error it returned is the error of the phase that failed,
\* whether or not the report reached the collector.
C3_Telemetry ==
  Installing =>
    /\ (Len(Begins) > 0 \/ pc \notin {"before", "guard", "done"})
         => /\ Len(events) >= 2 /\ events[2] = Started
            /\ events[1] = StatOp(StatErr("notexist"))
    /\ Len(SelectSeq(events, LAMBDA e : e = Started)) <= 1
    /\ pc # "done"
         => \A j \in DOMAIN events : events[j].n # "ReportApplyFinished"
    /\ (pc = "done" /\ Len(Reports) > 0)
         => LET last == events[Len(events)]
                end == Ends[Len(Ends)]
            IN  /\ last.k = "metric" /\ last.n = "ReportApplyFinished"
                /\ last.x \in {"sent", "dropped"}
                /\ Len(Reports) = 2
                /\ (result = Nil) = (last.e = Nil)
                /\ (result = Nil) = (end.e = Nil)
                /\ IsSuffix(end.e, result)
                /\ IsSuffix(end.e, last.e)
                /\ \A j \in 1..(Len(Ends) - 1) : Ends[j].e = Nil

\* C3, reached: a run whose post-install phase failed has returned that
\* error although the final report was dropped.
C3_Witness ==
  /\ Installing /\ pc = "done"
  /\ Len(Ends) > 0
  /\ Ends[Len(Ends)] = End("postinstall", Wrap("failed to create symlink", <<"symlink failed">>))
  /\ events[Len(events)].x = "dropped"
  /\ result = Wrap("unable to run post install",
                   Wrap("failed to create symlink", <<"symlink failed">>))

\* The preflights of this invocation have run and the gate has decided.
Gated == Has(output) /\ pc # "pfgate"
Confirms == SelectSeq(events, LAMBDA e : e.k = "op" /\ e.n = "prompts.Confirm")
\* errors.Is(err, ErrNothingElseToAdd): the signal the caller prints nothing for
IsNothingElseToAdd(err) == err # Nil /\ IsSuffix(ErrNothingElseToAdd, err)

\* C4: when the preflight output has a fail verdict, the command - install,
\* install run-preflights or join run-preflights - returns the distinguished
\* preflights-failed signal, for which the caller prints no further error.
C4_DistinguishedSignal ==
  (Gated /\ HasFail(Get(output)))
    => (pc = "done" /\ IsNothingElseToAdd(result))

\* C5: once the output of an install's preflights has a fail verdict, with
\* any number of pass and warn verdicts beside it and with or without
\* --no-prompt, the run has returned an error without prompting and without
\* starting the config phase.
C5_FailAborts ==
  (Installing /\ Gated /\ HasFail(Get(output)))
    => /\ pc = "done"
       /\ result = PreflightsErr(<<"preflights haven't passed on the host">>)
       /\ Len(Confirms) = 0
       /\ \A j \in DOMAIN events : events[j] # Begin("config")
       /\ ~k0sConfig.exists

\* C5, reached: an interactive install has aborted on an output with one
\* fail and one warn verdict.
C5_Witness ==
  /\ Installing /\ pc = "done" /\ Has(output)
  /\ Get(output) = [pass |-> 0, warn |-> 1, fail |-> 1]
  /\ ~flags.noPrompt
  /\ result # Nil

\* C6: with no fail verdict in the output of an install's preflights: with
\* a warning and --no-prompt the gate passes without prompting; with a
\* warning and no --no-prompt it prompts once, passes on yes and returns the
\* user-abort error on no; without a warning it passes without prompting.
\* The table is printed, once, in each case.
C6_WarnPolicy ==
  (Installing /\ Gated /\ ~HasFail(Get(output)))
    => LET passed == pc = "config" /\ result = Nil
                       /\ events[Len(events)] = End("preflights", Nil)
           aborted == pc = "done"
                       /\ result = PreflightsErr(<<"user aborted">>)
       IN  /\ Times("output.PrintTable") = 1
           /\ (HasWarn(Get(output)) /\ flags.noPrompt)
                => (Len(Confirms) = 0 /\ passed)
           /\ (HasWarn(Get(output)) /\ ~flags.noPrompt)
                => /\ Len(Confirms) = 1
                   /\ Confirms[1].x = "yes" => passed
                   /\ Confirms[1].x = "no" => aborted
           /\ ~HasWarn(Get(output))
                => (Len(Confirms) = 0 /\ passed)

\* C6, reached: an interactive install was asked once about a warning, was
\* told yes and is about to render the config.
C6_Witness ==
  /\ Installing /\ pc = "config" /\ Has(output)
  /\ Get(output) = [pass |-> 1, warn |-> 1, fail |-> 0]
  /\ ~flags.noPrompt
  /\ Len(Confirms) = 1 /\ Confirms[1].x = "yes"
  /\ Times("output.PrintTable") = 1

\* C7: when the host preflight spec of an install has no collector and no
\* analyzer, the gate passes and the run goes on to the config phase without
\* having run the preflights, printed a table or prompted.
C7_NoChecksNoRun ==
  (Installing /\ Has(hpf) /\ pc # "pfrun"
     /\ Get(hpf).collectors = 0 /\ Get(hpf).analyzers = 0)
    => /\ pc = "config" /\ result = Nil
       /\ events[Len(events)] = End("preflights", Nil)
       /\ ~Has(output)
       /\ ~Did("preflights.Run")
       /\ ~Did("output.PrintTable")
       /\ ~Did("prompts.Confirm")

\* C7, reached: an install with an empty host preflight spec is about to
\* render the config, no preflight having run.
C7_Witness ==
  /\ Installing /\ pc = "config" /\ Has(hpf)
  /\ Get(hpf) = [collectors |-> 0, analyzers |-> 0]
  /\ ~Did("preflights.Run")
  /\ events[Len(events)] = End("preflights", Nil)

\* What the two sources of overrides set for key k, once read.
EmbeddedSets(k) ==
  Has(embcfg) /\ Get(embcfg).kind = "ok" /\ Get(embcfg).k0s[k] # Unset
EndUserSets(k) ==
  flags.overrides # "" /\ Has(eucfg) /\ Get(eucfg).kind = "ok"
    /\ Get(eucfg).k0s[k] # Unset

\* C8: the config applyUnsupportedOverrides returns carries, for every key,
\* the end user's value when --overrides sets the key, else the embedded
\* value when the binary's embedded config sets it, else the rendered value;
\* so the user wins on conflict and an absent source changes nothing.
C8_OverridePrecedence ==
  (Installing /\ pc = "cfgwrite")
    => /\ Has(cfg) /\ Has(embcfg)
       /\ \A k \in Keys :
            Get(cfg)[k] = IF EndUserSets(k) THEN Get(eucfg).k0s[k]
                          ELSE IF EmbeddedSets(k) THEN Get(embcfg).k0s[k]
                          ELSE RenderedVal

\* C8, reached: embedded {1: v1}, end user {1: v2, 2: v1} gave {1: v2, 2: v1}.
C8_Witness ==
  /\ Installing /\ pc = "cfgwrite"
  /\ Has(embcfg) /\ Get(embcfg) = Fragment("ok", (1 :> "v1") @@ (2 :> Unset))
  /\ Has(eucfg) /\ Get(eucfg) = Fragment("ok", (1 :> "v2") @@ (2 :> "v1"))
  /\ Get(cfg) = (1 :> "v2") @@ (2 :> "v1")

EmbeddedFails == Has(embcfg) /\ Get(embcfg).kind \in {"error", "malformed"}
EndUserFails == Has(eucfg) /\ Get(eucfg).kind \in {"error", "malformed"}

\* C9: when the embedded or the end user's overrides cannot be read or
\* cannot be patched, the install has returned an error, no config came back
\* from applyUnsupportedOverrides, the config file was neither opened nor
\* written; and after a failure of the embedded overrides the end user's
\* were neither read nor patched.
C9_PatchChainAborts ==
  (Installing /\ (EmbeddedFails \/ EndUserFails))
    => /\ pc = "done"
       /\ result # Nil
       /\ result[1] = "unable to create config file"
       /\ result[2] = "unable to apply unsupported overrides"
       /\ cfg = None
       /\ ~Did("os.OpenFile k0s.yaml") /\ ~Did("fp.Write")
       /\ ~k0sConfig.exists
       /\ EmbeddedFails => (~Did("ParseEndUserConfig") /\ ~Did("PatchK0sConfig user"))

\* C9, reached: the embedded overrides were patched, the end user's could
\* not be, and the install returned with no config and no file.
C9_Witness ==
  /\ Installing /\ pc = "done"
  /\ Has(embcfg) /\ Get(embcfg).kind = "ok" /\ Get(embcfg).k0s[1] = "v1"
  /\ Has(eucfg) /\ Get(eucfg).kind = "malformed"
  /\ cfg = None /\ ~k0sConfig.exists
  /\ Did("PatchK0sConfig embedded")

\* C10: when the version in the join command fetched differs from the
\* version of the running binary, join run-preflights has returned the
\* version-mismatch error having done nothing after the fetch: no proxy
\* variable set, no proxy check, no materialization, no preflight.
C10_JoinVersionGate ==
  (cmd = "joinRunPreflights" /\ Has(jcmd)
     /\ Get(jcmd).EmbeddedClusterVersion # flags.version)
    => /\ pc = "done"
       /\ result = <<"embedded cluster version mismatch">>
       /\ events = << Op("getJoinToken", Nil) >>
       /\ env \cap ProxyVars = {}

\* C10, reached: a binary of version 1.2.4 was refused a join command of
\* version 1.2.4-rc1 that carries a proxy.
C10_Witness ==
  /\ cmd = "joinRunPreflights" /\ pc = "done"
  /\ flags.version = "1.2.4"
  /\ Has(jcmd) /\ Get(jcmd).EmbeddedClusterVersion = "1.2.4-rc1"
  /\ Get(jcmd).Proxy = "proxies local IP"
  /\ result = <<"embedded cluster version mismatch">>
  /\ env = {}

\* What checkProxyConfigForLocalIP returned to this join run-preflights
ProxyChecks ==
  SelectSeq(events, LAMBDA e : e.k = "op" /\ e.n = "checkProxyConfigForLocalIP")
ProxyRejected ==
  /\ cmd = "joinRunPreflights" /\ Len(ProxyChecks) > 0
  /\ \/ ProxyChecks[1].e # Nil
     \/ ~checkProxyConfigForLocalIP(Get(jcmd).Proxy, TRUE).ok
Logged(msg) == \E j \in DOMAIN events : events[j].k = "log" /\ events[j].n = msg

\* C11: when, the version gate passed and the proxy of the join command set
\* in the environment, the proxy check cannot resolve the local address or
\* finds it not exempted, join run-preflights has returned an error after
\* that one check: nothing materialized, no preflights read or run, and no
\* "Host preflights completed successfully".
C11_JoinProxyValidation ==
  ProxyRejected
    => /\ pc = "done" /\ result # Nil
       /\ ~versionMismatch(Get(jcmd), flags.version)
       /\ ProxyVars \subseteq env
       /\ Len(ProxyChecks) = 1
       /\ events[Len(events)] = ProxyChecks[1]
       /\ ~Did("materializeFiles")
       /\ ~Did("applier.HostPreflights") /\ ~Did("preflights.Run")
       /\ ~Logged("Host preflights completed successfully")

\* C11, reached: a join command whose no-proxy list leaves out the local
\* address was refused after the check resolved that address.
C11_Witness ==
  /\ cmd = "joinRunPreflights" /\ pc = "done"
  /\ Has(jcmd) /\ Get(jcmd).Proxy = "proxies local IP"
  /\ Len(ProxyChecks) = 1 /\ ProxyChecks[1].e = Nil
  /\ result = <<"no-proxy config does not allow access to local IP">>

Probes(ev) == Len(SelectSeq(ev, LAMBDA e : e.k = "op" /\ e.n = "k0s status"))
TimeoutErr == WaitErr(<<"timeout waiting for embedded-cluster">>)

\* A turn of the loop of waitForK0s: the socket is checked while fewer than
\* 30 checks were made; a check that sees the socket ends the loop, one that
\* does not is followed by another unless it was the 30th, after which the
\* install returns the timeout error; no status probe in the loop.
C12_Poll ==
  (Installing /\ pc = "wait" /\ << pc, i, events >>' # << pc, i, events >>)
    => /\ i < WaitAttempts
       /\ Probes(events') = 0
       /\ \/ pc' = "status" /\ socket
          \/ pc' = "wait" /\ i' = i + 1 /\ i' < WaitAttempts
          \/ /\ pc' = "done" /\ i + 1 = WaitAttempts
             /\ result' = TimeoutErr

\* The status probe: once, after the socket was seen; the wait succeeds
\* only if the probe does.
C12_Probe ==
  (Installing /\ pc = "status" /\ pc' # pc)
    => /\ socket
       /\ Probes(events) = 0 /\ Probes(events') = 1
       /\ \/ /\ pc' = "outro"
             /\ events' = events \o << Op("k0s status", Nil), End("wait", Nil) >>
          \/ /\ pc' = "done"
             /\ result' # Nil /\ result' # TimeoutErr

\* C12: waitForK0s checks for the status socket at most 30 times and comes
\* to an end; it succeeds only when a check saw the socket and the status
\* probe that followed succeeded; 30 checks without the socket end in the
\* timeout error with no probe; the probe runs at most once, after the
\* socket was seen.
C12_ReadinessWaiter ==
  /\ [][C12_Poll /\ C12_Probe]_vars
  /\ [](Installing =>
          /\ Probes(events) <= 1
          /\ i \in 0..(WaitAttempts - 1)
          /\ (pc \notin {"wait", "status"}) => i = 0
          /\ (\E j \in DOMAIN events : events[j] = End("wait", Nil))
               => (socket /\ \E j \in DOMAIN events : events[j] = Op("k0s status", Nil))
          /\ (pc = "done" /\ result = TimeoutErr) => Probes(events) = 0)
  /\ (Installing /\ pc \in {"wait", "status"}) ~> (pc \notin {"wait", "status"})

\* C12, reached: the socket never came, and after the 30th check the install
\* returned the timeout error without a probe.
C12_Witness ==
  /\ Installing /\ pc = "done" /\ ~socket /\ k0sStarted
  /\ result = TimeoutErr
  /\ events[Len(events) - 1] = End("wait", <<"timeout waiting for embedded-cluster">>)
  /\ Probes(events) = 0

\* C13: once the caller's context is cancelled during the readiness wait,
\* the turn of the loop in progress is the last: the wait does not go on to
\* sleep and check again, and the install returns an error instead of
\* waiting for the socket or for the 30th check.
C13_CancellationAbortsWait ==
  [][ (Installing /\ pc = "wait" /\ ctxDone
         /\ << pc, i, events >>' # << pc, i, events >>)
        => (pc' = "done" /\ result' # Nil) ]_vars

\* C14: a retry of install is not made to fail by what an aborted run left
\* on the host: the entry guard refuses a run only on a host where an
\* earlier run got k0s installed and started, never on one that an aborted
\* run left with the marker file and nothing running.
C14_RetryAfterFailure ==
  (Installing /\ runs >= 2 /\ pc = "done" /\ events = << StatOp(Nil) >>)
    => (k0sInstalled /\ k0sStarted)

\* The state an install that succeeded ends in: every phase begun and ended
\* in order, nil returned, apply-finished reported with nil, the marker
\* file written.
Installed ==
  /\ Installing /\ pc = "done" /\ result = Nil
  /\ Len(Begins) = Len(PhaseOrder) /\ Len(Ends) = Len(PhaseOrder)
  /\ \A j \in DOMAIN PhaseOrder :
       Begins[j] = Begin(PhaseOrder[j]) /\ Ends[j] = End(PhaseOrder[j], Nil)
  /\ events[Len(events)].k = "metric"
  /\ events[Len(events)].n = "ReportApplyFinished"
  /\ events[Len(events)].e = Nil
  /\ k0sConfig = WrittenFile

\* C15: an install started on a host without the marker file, with no host
\* preflight checks, no overrides, a matching license, every call
\* succeeding and the status socket there within the 30 checks, eventually
\* returns nil having gone through every phase in order, reports
\* apply-finished with nil, and leaves the marker file.
C15_EndToEnd ==
  (Installing /\ pc \in {"before", "guard"} /\ ~k0sConfig.exists) ~> Installed

\* C15, reached: the first install on the host, given a license and no
\* overrides and finding no preflight checks, has returned nil.
C15_Witness ==
  /\ Installed /\ runs = 1 /\ socket /\ hpf = None
  /\ flags.overrides = "" /\ flags.license # ""

\* C16: overrideK0sImages does not return normally with a zero-valued image
\* reference: when the manifest lacks an image, or its tag for the running
\* architecture, it fails with a missing-image error instead of setting an
\* empty repository or an empty tag; and the images block it leaves is
\* never nil.
C16_MissingImageFails ==
  (call = "overrideK0sImages returned")
    => /\ Has(clusterSpec.Images)
       /\ \A f \in OverriddenFields :
            /\ Get(clusterSpec.Images)[f].Image # ""
            /\ Get(clusterSpec.Images)[f].Version # ""

\* What the claim says ListK0sImages returns: the enumeration without the
\* skipped images, each image that contains the default pause image
\* replaced by the configured one.
Kept == SelectSeq(uris, LAMBDA u : u \notin Skipped(clusterSpec))
Emitted(u) ==
  IF Contains(u, KubePauseContainerImage)
  THEN URI(Get(clusterSpec.Images)["Pause"])
  ELSE u

\* C17: for every enumeration, ListK0sImages leaves out each URI equal to
\* one of the four skipped images (kube-router CNI, its installer,
\* konnectivity, envoy proxy), replaces each other URI that contains the
\* default pause image by the configured pause image, passes every other
\* URI through unchanged, and keeps the order of the enumeration.
C17_ListK0sImages ==
  (call = "ListK0sImages returned")
    => /\ Len(images) = Len(Kept)
       /\ \A j \in DOMAIN images : images[j] = Emitted(Kept[j])
       /\ \A j \in DOMAIN images :
            ~Contains(Kept[j], KubePauseContainerImage) => images[j] = Kept[j]

\* C17, reached: an enumeration with a skipped image, then the mirrored
\* default pause image, then an image passed through, listed for a config
\* whose pause image is the manifest's.
C17_Witness ==
  /\ call = "ListK0sImages returned"
  /\ uris = << URI(DefaultEnvoyProxy),
               << "mirror.local/", "registry.k8s.io/pause", ":", "3.9" >>,
               << "repo/coredns", ":", "v1-amd64" >> >>
  /\ images = << << "repo/pause", ":", "v1-amd64" >>,
                 << "repo/coredns", ":", "v1-amd64" >> >>

\* The install has returned because a phase failed; the phase, and the error
\* the phase function returned.
PhaseFailed ==
  /\ Installing /\ pc = "done"
  /\ Len(Ends) > 0 /\ Ends[Len(Ends)].e # Nil
FailedPhase == Ends[Len(Ends)].n
PhaseError == Ends[Len(Ends)].e
Reported == events[Len(events)].e
\* What the Action puts in front of a phase's error
PhaseContext(p) ==
  CASE p = "license" -> "unable to check license"
    [] p = "materialize" -> "unable to materialize binaries"
    [] p = "preflights" -> "unable to finish preflight checks"
    [] p = "config" -> "unable to create config file"
    [] p = "install" -> "unable update cluster"
    [] p = "postinstall" -> "unable to run post install"
    [] p = "wait" -> "unable to wait for node"
    [] OTHER -> "unable to run outro"

\* C18 as stated: the error the install returns for a failing phase, from
\* the license check through the outro, is the phase's error wrapped with
\* the context of that phase.
C18_EveryPhaseErrorWrapped ==
  PhaseFailed
    => /\ Len(result) = Len(PhaseError) + 1
       /\ IsSuffix(PhaseError, result)

\* C18, amended: the error the install returns for a failing phase is the
\* phase's error wrapped with the context of that phase, for the phases
\* from materialize through the readiness wait; the error of the license
\* check is returned as checkLicenseMatches returned it, its wrapped form
\* going to the metrics only, and the error of the outro is returned and
\* reported as runOutro returned it.
C18_PhaseErrorWrapping ==
  PhaseFailed
    => /\ FailedPhase = "license"
            => (result = PhaseError
                  /\ Reported = Wrap(PhaseContext("license"), PhaseError))
       /\ FailedPhase = "outro"
            => (result = PhaseError /\ Reported = PhaseError)
       /\ FailedPhase \notin {"license", "outro"}
            => (result = Wrap(PhaseContext(FailedPhase), PhaseError)
                  /\ Reported = result)

\* C18, reached: the license check failed and the install returned its
\* error without the context that the metrics got.
C18_Witness ==
  /\ PhaseFailed /\ FailedPhase = "license"
  /\ result = PhaseError
  /\ Reported = << "unable to check license" >> \o PhaseError

\* The operations an install asks of the world outside the process
ExternalOps ==
  { "goods.Materialize", "preflights.Run", "os.Rename k0s", "k0s install",
    "k0s start", "os.Symlink", "systemctl daemon-reload", "k0s status",
    "applier.Outro" }

\* C19: within one install run each external operation is invoked at most
\* once, whether it succeeded or failed; only the check for the status
\* socket is repeated, and it has been made fewer than 30 times whenever
\* the loop may make another.
C19_NoRetries ==
  Installing
    => /\ \A n \in ExternalOps : Times(n) <= 1
       /\ i < WaitAttempts

\* C19, reached: an install that ran every operation once, checked for the
\* socket 30 times, and ended with its outro failing.
C19_Witness ==
  /\ Installing /\ pc = "done" /\ result = << "outro failed" >>
  /\ \A n \in ExternalOps \ {"preflights.Run"} : Times(n) = 1
  /\ Did("systemctl daemon-reload")

\* Where an operation is in the events of the run; 0 when it is not there.
At(n) ==
  IF Did(n) THEN CHOOSE j \in DOMAIN events : events[j].k = "op" /\ events[j].n = n
  ELSE 0
InstallOps == { "os.Rename k0s", "k0s install", "k0s start" }

\* C20: in the installing phase the k0s binary is moved to its host path
\* first, "k0s install" runs only after the move succeeded and "k0s start"
\* only after "k0s install" succeeded; when one of the three fails nothing
\* is tried after it, the install returns an error, and post-install, the
\* readiness wait and the outro are never begun.
C20_InstallingPhase ==
  Installing
    => /\ Did("k0s install")
            => (At("os.Rename k0s") > 0 /\ At("os.Rename k0s") < At("k0s install")
                  /\ events[At("os.Rename k0s")].e = Nil)
       /\ Did("k0s start")
            => (At("k0s install") > 0 /\ At("k0s install") < At("k0s start")
                  /\ events[At("k0s install")].e = Nil)
       /\ \A n \in InstallOps :
            (Did(n) /\ events[At(n)].e # Nil)
              => /\ pc = "done" /\ result # Nil
                 /\ result[1] = "unable update cluster"
                 /\ IsSuffix(events[At(n)].e, result)
                 /\ \A j \in (At(n) + 1)..Len(events) : events[j].k \notin {"op", "begin"}
                 /\ \A p \in {"postinstall", "wait", "outro"} :
                      \A j \in DOMAIN events : events[j] # Begin(p)
       /\ (\E j \in DOMAIN events : events[j] = Begin("postinstall"))
            => \A n \in InstallOps : Did(n) /\ events[At(n)].e = Nil

\* C20, reached: the binary was moved and "k0s install" ran, "k0s start"
\* failed, and the install returned that error.
C20_Witness ==
  /\ Installing /\ pc = "done"
  /\ hstbin /\ k0sInstalled /\ ~k0sStarted
  /\ result = << "unable update cluster", "unable to start", "exit status 1" >>
  /\ At("os.Rename k0s") < At("k0s install") /\ At("k0s install") < At("k0s start")

\* C21: when the outro fails after every earlier phase succeeded, the
\* install returns the error of the outro and reports apply-finished with
\* that error, and what the earlier phases did is still there when it
\* returns: the k0s config file as written, the k0s binary at its host
\* path, the installed and started service, and the service symlink.
C21_OutroFailureKeepsInstall ==
  (PhaseFailed /\ FailedPhase = "outro")
    => /\ result = PhaseError
       /\ events[Len(events)].k = "metric"
       /\ events[Len(events)].n = "ReportApplyFinished"
       /\ Reported = PhaseError
       /\ \A j \in 1..(Len(Ends) - 1) : Ends[j].e = Nil
       /\ k0sConfig = WrittenFile
       /\ hstbin /\ k0sInstalled /\ k0sStarted /\ symlink

\* C21, reached: the addons' Outro failed and the install returned its
\* error, on a host that has the marker, the binary and the symlink.
C21_Witness ==
  /\ PhaseFailed /\ FailedPhase = "outro"
  /\ result = << "outro failed" >>
  /\ events[Len(events) - 2] = Op("applier.Outro", << "outro failed" >>)
  /\ k0sConfig = WrittenFile /\ hstbin /\ symlink

\* The license check of the run has returned and what it looked at is known.
LicenseChecked ==
  /\ Installing /\ Has(channelRelease)
  /\ Len(Ends) > 0 /\ Ends[1].n = "license"
\* No release in the binary and no --license flag, or a release and a
\* license that parses and has the app slug and the channel id of the release.
LicenseMatches ==
  \/ Get(channelRelease).kind = "nil" /\ flags.license = ""
  \/ /\ Get(channelRelease).kind = "ok" /\ flags.license # ""
     /\ Has(licenseSpec) /\ Get(licenseSpec).kind = "ok"
     /\ Get(licenseSpec).AppSlug = Get(channelRelease).AppSlug
     /\ Get(licenseSpec).ChannelID = Get(channelRelease).ChannelID

\* C22: checkLicenseMatches returns nil exactly when there is no embedded
\* release and no --license flag, or there is a release and the license
\* parses and has the release's app slug and channel id; when it returns an
\* error the install returns that error having done nothing after the entry
\* check: nothing materialized, no preflight, no config file.
C22_LicensePrecondition ==
  LicenseChecked
    => /\ Ends[1].e = Nil <=> LicenseMatches
       /\ Ends[1].e # Nil
            => /\ pc = "done" /\ result = Ends[1].e
               /\ Ops = << StatOp(StatErr("notexist")) >>
               /\ Begins = << Begin("license") >>
               /\ ~k0sConfig.exists

\* C22, reached: the license is of the release's app and of another
\* channel, and the install returned the mismatch having done nothing.
C22_Witness ==
  /\ LicenseChecked /\ pc = "done"
  /\ Get(channelRelease) = [kind |-> "ok", AppSlug |-> "app1", ChannelID |-> "ch1"]
  /\ Has(licenseSpec)
  /\ Get(licenseSpec) = [kind |-> "ok", AppSlug |-> "app1", ChannelID |-> "ch2"]
  /\ result = << "license channel does not match binary channel" >>
  /\ ~ourbin /\ ~k0sConfig.exists

\* C23: when ensureK0sConfig returns an error in an install run that found
\* no k0s config file at its entry check, whatever the step that failed,
\* there is no k0s config file when the install returns.
C23_NoMarkerAfterConfigFailure ==
  (PhaseFailed /\ FailedPhase = "config"
     /\ events[1] = StatOp(StatErr("notexist")))
    => ~k0sConfig.exists

\* C24: the entry check and the creation of the k0s config file are not one
\* step, and no invocation is held back by another: an invocation at the
\* entry check passes it when the file is not there, and one at the check
\* of ensureK0sConfig passes that when the file is not there, wherever the
\* other invocations are; and one that passed both writes the file and goes
\* on to installK0s even when another has created the file meanwhile.
C24_CheckThenCreate ==
  \A p \in Invocations :
    /\ (concurrent[p].pc = "guard" /\ ~k0sConfig.exists)
         => ENABLED (ConcurrentGuard(p) /\ concurrent'[p].pc = "phases")
    /\ (concurrent[p].pc = "config" /\ ~k0sConfig.exists)
         => ENABLED (ConcurrentConfigCheck(p) /\ concurrent'[p].pc = "cfgwrite")
    /\ concurrent[p].pc = "cfgwrite"
         => ENABLED (ConcurrentConfigWrite(p) /\ concurrent'[p].pc = "install")

\* C24, reached: two installs invoked on the fresh host have both passed the
\* entry check and the check of ensureK0sConfig, both written the file,
\* and both are at installK0s.
C24_Witness ==
  /\ concurrent[1].pc = "install" /\ concurrent[2].pc = "install"
  /\ k0sConfig = WrittenFile
====
